---- MODULE Spec2Model ----
(***************************************************************************)
(* Register-level model of the i2c-sensors drivers: bring-up of the        *)
(* BMP388, BME280 and BME680 drivers, and the BMP388 mode/status, FIFO and  *)
(* raw-read operations.  Every transport call (module i2cio, struct I2c) is *)
(* one step: it either fails (the error is returned with `?`) or delivers   *)
(* what the device answers.                                                 *)
(***************************************************************************)
EXTENDS Integers, Sequences, FiniteSets, TLC

VARIABLES
    pc,       \* position inside the operation in progress ("done" once returned)
    op,       \* the operation in progress or last returned: [name, drv, args]
    handle,   \* the driver struct the caller holds (NoHandle before a successful new)
    dev,      \* the chip on the bus: its kind and the registers the drivers read back
    calls,    \* transport calls issued by the operation in progress, in issue order
    loc,      \* local variables of the operation in progress
    result,   \* what the operation returned
    main      \* the caller of the driver: its position in the loops of the example

vars == <<pc, op, handle, dev, calls, loc, result, main>>

(***************************************************************************)
(* Bounds of the model.                                                     *)
(***************************************************************************)
\* a block read may deliver up to this many bytes fewer than the buffer holds
MaxShortfall == 1

(***************************************************************************)
(* u8 arithmetic as Rust computes it.                                       *)
(***************************************************************************)
RECURSIVE BitAnd(_, _)
BitAnd(a, b) ==
    IF a = 0 \/ b = 0 THEN 0
    ELSE (a % 2) * (b % 2) + 2 * BitAnd(a \div 2, b \div 2)

BitOr(a, b) == a + b - BitAnd(a, b)

Shl8(a, n) == (a * (2 ^ n)) % 256

Shr(a, n) == a \div (2 ^ n)

(***************************************************************************)
(* Constants of the drivers.                                                *)
(***************************************************************************)
BMP388_CHIP_ID == 80                      \* 0x50
BMP388_LEN_TRIMMING_COEFFICIENTS == 21
BMP388_REG_CHIP_ID == 0
BMP388_REG_POWER_CONTROL == 27            \* 0x1b
BMP388_REG_OVERSAMPLING_RATE == 28        \* 0x1c
BMP388_REG_OUTPUT_DATA_RATE == 29         \* 0x1d
BMP388_REG_CONFIG == 31                   \* 0x1f
BMP388_REG_TRIMMING_COEFFICIENTS == 49    \* 0x31
BMP388_REG_CMD == 126                     \* 0x7e
BMP388_CMD_SOFT_RESET == 182              \* 0xb6
BMP388_STARTUP_DELAY_MS == 2

BME280_CHIP_ID == 96                      \* 0x60
BME280_LEN_TEMP_PRESS_CALIB_DATA == 26
BME280_CTRL_MODE_MSK == 3                 \* 0x03
BME280_CTRL_PRESS_MSK == 28               \* 0x1C
BME280_CTRL_PRESS_POS == 2
BME280_CTRL_TEMP_MSK == 224               \* 0xE0
BME280_CTRL_TEMP_POS == 5
BME280_REG_CTRL_HUM == 242                \* 0xf2
BME280_REG_CTRL_MEAS == 244               \* 0xf4
BME280_LEN_HUMIDITY_CALIB_DATA == 7
BME280_STARTUP_DELAY_MS == 2
BME280_SOFT_RESET_COMMAND == 182          \* 0xb6
BME280_REG_PART_ID == 208                 \* 0xd0
BME280_REG_RESET == 224                   \* 0xe0
BME280_REG_TEMP_PRESS_CALIB_DATA == 136   \* 0x88
BME280_REG_HUMIDITY_CALIB_DATA == 225     \* 0xe1

BME680_CHIP_ID == 97                      \* 0x61
BME680_REG_CONFIG == 117                  \* 0x75
BME680_REG_CTRL_HUM == 114                \* 0x72
BME680_REG_CTRL_MEAS == 116               \* 0x74
BME680_REG_CHIP_ID == 208                 \* 0xd0
BME680_REG_RESET == 224                   \* 0xe0
BME680_REG_CALIB_DATA1_BASE == 138        \* 0x8a
BME680_REG_CALIB_DATA2_BASE == 225        \* 0xe1
BME680_REG_CALIB_DATA3_BASE == 0
BME680_CALIB_DATA1_LEN == 23
BME680_CALIB_DATA2_LEN == 14
BME680_CALIB_DATA3_LEN == 5
BME680_COMMAND_SOFT_RESET == 182          \* 0xb6
BME680_STARTUP_DELAY_MS == 2
BME680_CTRL_MEAS_PRESSURE_SHL == 2
BME680_CTRL_MEAS_TEMPERATURE_SHL == 5
BME680_CONTROL_IIR_FILTER_SHL == 2

POWERMODE_SLEEP == 0
POWERMODE_FORCED == 1
POWERMODE_NORMAL == 3
BMP280_POWER_MODE_LOW_BIT == 4
BMP280_PRESSURE_SENSOR_ENABLED_BIT == 1
BMP280_TEMPERATURE_SENSOR_ENABLED_BIT == 2

(***************************************************************************)
(* Enumerations and their register encodings.                               *)
(***************************************************************************)
BMP388OverSamplingPr_value(e) ==
    CASE e = "UltraLowX1" -> 0 [] e = "LowX2" -> 1 [] e = "StandardX4" -> 2
      [] e = "HighX8" -> 3 [] e = "UltraHighX16" -> 4 [] e = "HighestX32" -> 5

BMP388OverSamplingTp_value(e) ==
    CASE e = "X1" -> 0 [] e = "X2" -> 1 [] e = "X4" -> 2
      [] e = "X8" -> 3 [] e = "X16" -> 4 [] e = "X32" -> 5

BMP388IrrFilter_value(e) ==
    CASE e = "Off" -> 0 [] e = "Coef1" -> 1 [] e = "Coef3" -> 2 [] e = "Coef7" -> 3
      [] e = "Coef15" -> 4 [] e = "Coef31" -> 5 [] e = "Coef63" -> 6 [] e = "Coef127" -> 7

BMP388OutputDataRate_value(e) ==
    CASE e = "Ax200Hz" -> 0 [] e = "Bx100Hz" -> 1 [] e = "Cx50Hz" -> 2 [] e = "Dx25Hz" -> 3

BMP388SensorPowerMode_value(e) ==
    CASE e = "Sleep" -> POWERMODE_SLEEP
      [] e = "Forced" -> POWERMODE_FORCED
      [] e = "Normal" -> POWERMODE_NORMAL

EnableValue(e) == IF e = "Enabled" THEN 1 ELSE 0

Bme680OverSampling_value(e) ==
    CASE e = "NoOversampling" -> 0 [] e = "Oversampling1x" -> 1
      [] e = "Oversampling2x" -> 2 [] e = "Oversampling4x" -> 3

Bme680IrrFilter_value(e) ==
    CASE e = "FilterOff" -> 0 [] e = "Coef3" -> 2 [] e = "Coef7" -> 3

(***************************************************************************)
(* Values of the model: transport calls, results, locals, handles.          *)
(***************************************************************************)
Drivers == {"BMP388", "BME280", "BME680"}

\* one transport call: for a block read len is the buffer length and val the
\* number of bytes delivered; for a write val is the byte written
Call(kind, reg, len, val, ok) ==
    [kind |-> kind, reg |-> reg, len |-> len, val |-> val, ok |-> ok]

WriteKinds == {"write_byte", "write_word"}

Ok(v) == [ok |-> TRUE, err |-> "", val |-> v]

Err(e) == [ok |-> FALSE, err |-> e, val |-> <<>>]

NoResult == [ok |-> FALSE, err |-> "pending", val |-> <<>>]

NoHandle == [drv |-> "none", calib_filled |-> <<>>, calib_data |-> <<>>,
             with_sensor_time |-> "Disabled"]

NoOp == [name |-> "none", drv |-> "none", args |-> <<>>]

\* the caller of the driver (main of the example program) when it is not in one
\* of its loops
NoMain == [mode |-> "none", pc |-> "none", args |-> <<>>, read_back |-> "none",
           frame_reads |-> 0, lengths_read |-> 0, zero_lengths |-> 0]

\* fifo_at_header is no local of the program: it records the length of the
\* chip's queue at the moment of the header read, where the model follows it
NoLoc == [chip_id |-> -1, calib_filled |-> <<>>, calib_data |-> <<>>,
          header |-> -1, fifo_length |-> -1, bytes_read |-> -1, read_buf |-> <<>>,
          ctrl_meas |-> -1, fifo_at_header |-> -1]

(***************************************************************************)
(* The chip on the bus.                                                     *)
(***************************************************************************)
\* identity bytes a chip may answer: the three expected ones and a stranger
IdBytes == {BMP388_CHIP_ID, BME280_CHIP_ID, BME680_CHIP_ID, 0}

\* factory trimming block of the BMP388 on the bus (register 0x31 onward)
DeviceTrimmingBlock ==
    <<112, 107, 114, 73, 246, 206, 254, 168, 241, 35, 0,
      34, 101, 56, 119, 243, 249, 212, 65, 13, 196>>

\* the soft-reset command puts the user registers back to their power-on
\* state: power mode Sleep, oversampling at the chip's power-on value
DevSoftReset(d) ==
    [d EXCEPT !.pwr_ctrl = Shl8(POWERMODE_SLEEP, BMP280_POWER_MODE_LOW_BIT),
              !.osr = d.osr_por,
              !.ctrl_meas = 0]

\* a byte written to a register of the chip
DevWrite(d, drv, reg, val) ==
    CASE drv = "BMP388" /\ reg = BMP388_REG_CMD /\ val = BMP388_CMD_SOFT_RESET ->
            DevSoftReset(d)
      [] drv = "BME280" /\ reg = BME280_REG_RESET /\ val = BME280_SOFT_RESET_COMMAND ->
            DevSoftReset(d)
      [] drv = "BME680" /\ reg = BME680_REG_RESET /\ val = BME680_COMMAND_SOFT_RESET ->
            DevSoftReset(d)
      [] drv = "BMP388" /\ reg = BMP388_REG_POWER_CONTROL -> [d EXCEPT !.pwr_ctrl = val]
      [] drv = "BMP388" /\ reg = BMP388_REG_OVERSAMPLING_RATE -> [d EXCEPT !.osr = val]
      [] drv = "BME280" /\ reg = BME280_REG_CTRL_MEAS -> [d EXCEPT !.ctrl_meas = val]
      [] OTHER -> d

\* bytes a block read of len bytes may deliver
Delivered(len) == {len - k : k \in 0..MaxShortfall}

\* the buffer [0; len] after the device filled its first n bytes from block
FillBuffer(block, len, n) == [i \in 1..len |-> IF i <= n THEN block[i] ELSE 0]

(***************************************************************************)
(* Calibration decoding (BMP388::get_calib_data), before scaling.           *)
(***************************************************************************)
\* concat_bytes taking its first argument as the low byte
concat_bytes_low_first(msb, lsb) == BitOr((lsb * 256) % 65536, msb)

concat_bytes(msb, lsb) == BitOr((msb * 256) % 65536, lsb)

AsI16(x) == IF x >= 32768 THEN x - 65536 ELSE x

AsI8(x) == IF x >= 128 THEN x - 256 ELSE x

\* the value an i16 computation has in a build without overflow checks
WrapI16(x) == AsI16(x % 65536)

\* par_p1 - 16384 or par_p2 - 16384, computed in i16, leaves the i16 range
CalibOverflows(reg_data) ==
    LET b(i) == reg_data[i + 1] IN
    \/ AsI16(concat_bytes(b(6), b(5))) - 16384 < -32768
    \/ AsI16(concat_bytes(b(8), b(7))) - 16384 < -32768

\* an arithmetic overflow panics in a build with overflow checks (debug) and
\* wraps in a build without them (release)
Builds == {"debug", "release"}

\* reg_data is the Rust array, indexed from 0; the fields are those of a build
\* that does not panic
DecodeCalib(reg_data) ==
    LET b(i) == reg_data[i + 1] IN
    [par_t1 |-> concat_bytes(b(1), b(0)),
     par_t2 |-> concat_bytes(b(3), b(2)),
     par_t3 |-> AsI8(b(4)),
     par_p1 |-> WrapI16(AsI16(concat_bytes(b(6), b(5))) - 16384),
     par_p2 |-> WrapI16(AsI16(concat_bytes(b(8), b(7))) - 16384),
     par_p3 |-> AsI8(b(9)),
     par_p4 |-> AsI8(b(10)),
     par_p5 |-> concat_bytes(b(12), b(11)),
     par_p6 |-> concat_bytes(b(14), b(13)),
     par_p7 |-> AsI8(b(15)),
     par_p8 |-> AsI8(b(16)),
     par_p9 |-> AsI16(concat_bytes(b(18), b(17))),
     par_p10 |-> AsI8(b(19)),
     par_p11 |-> AsI8(b(20))]

(***************************************************************************)
(* Steps shared by the operations.                                          *)
(***************************************************************************)
\* the caller is at its call of method name with arguments args; a caller
\* outside the loops of the example may call any method
Calls(name, args) ==
    main.pc = "none" \/ (main.pc = name /\ main.args = args)

\* an operation starts only when none is in progress; its locals are fresh
Begin(o) ==
    /\ pc = "idle"
    /\ op' = o
    /\ loc' = NoLoc

\* the operation has returned: the caller takes the result, and the locals and
\* the record of the transport calls of this operation go with it
Return ==
    /\ pc = "done"
    /\ pc' = "idle"
    /\ op' = NoOp
    /\ calls' = <<>>
    /\ loc' = NoLoc
    /\ result' = NoResult
    /\ UNCHANGED <<handle, dev>>
    /\ UNCHANGED main

\* Fail as a driver that swallows the error would have it: the failed call is
\* recorded and the operation stays where it is, free to issue the call again
FailAndRetry(c) ==
    /\ calls' = Append(calls, c)
    /\ UNCHANGED <<pc, op, handle, dev, loc, result>>

\* Fail as a driver whose error path resets the cached sensor-time flag
FailAndForget(c) ==
    /\ calls' = Append(calls, c)
    /\ pc' = "done"
    /\ result' = Err("TransportFailure")
    /\ handle' = [handle EXCEPT !.with_sensor_time = "Disabled"]
    /\ UNCHANGED <<op, dev, loc>>

\* a transport call failed: `?` returns the error, nothing else is issued
Fail(c) ==
    /\ calls' = Append(calls, c)
    /\ pc' = "done"
    /\ result' = Err("TransportFailure")
    /\ UNCHANGED <<op, handle, dev, loc>>

\* i2cio::write_byte(..)? in the middle of an operation, going on at next
WriteByteStep(reg, val, next) ==
    \E ok \in BOOLEAN :
        IF ok
        THEN /\ calls' = Append(calls, Call("write_byte", reg, 1, val, TRUE))
             /\ dev' = DevWrite(dev, op.drv, reg, val)
             /\ pc' = next
             /\ UNCHANGED <<op, handle, loc, result>>
        ELSE Fail(Call("write_byte", reg, 1, val, FALSE))

(***************************************************************************)
(* Bring-up: BMP388::new, BME280::new, BME680::new.                         *)
(***************************************************************************)
\* oversampling arguments the model draws from: <<osr_p, osr_t>>
OsrArgs == {<<"StandardX4", "X1">>, <<"UltraLowX1", "X2">>}

ExpectedChipId(drv) ==
    CASE drv = "BMP388" -> BMP388_CHIP_ID
      [] drv = "BME280" -> BME280_CHIP_ID
      [] drv = "BME680" -> BME680_CHIP_ID

ChipIdRegister(drv) ==
    CASE drv = "BMP388" -> BMP388_REG_CHIP_ID
      [] drv = "BME280" -> BME280_REG_PART_ID
      [] drv = "BME680" -> BME680_REG_CHIP_ID

\* UnexpectedChipId with an identity byte of zero let through
UnexpectedChipIdLax(chip_id, drv) == chip_id # ExpectedChipId(drv) /\ chip_id # 0

\* if chip_id != <DRV>_CHIP_ID { return Err(..) }
UnexpectedChipId(chip_id, drv) == chip_id # ExpectedChipId(drv)

\* OsrRegVal with the two fields in each other's place
OsrRegValSwapped(osr_p, osr_t) ==
    BitOr(Shl8(BMP388OverSamplingPr_value(osr_p), 3), BMP388OverSamplingTp_value(osr_t))

\* let reg_val = osr_t.value() << 3 | osr_p.value()
OsrRegVal(osr_p, osr_t) ==
    BitOr(Shl8(BMP388OverSamplingTp_value(osr_t), 3), BMP388OverSamplingPr_value(osr_p))

\* the struct a successful new returns
NewHandle(drv, l) ==
    [drv |-> drv, calib_filled |-> l.calib_filled, calib_data |-> l.calib_data,
     with_sensor_time |-> "Disabled"]

\* get_bus(..)? and set_slave(..)?, the first two statements of every new
OpenBus(o) ==
    /\ handle.drv = "none"
    /\ Begin(o)
    /\ \E okbus, okslave \in BOOLEAN :
        /\ calls' = IF okbus
                    THEN <<Call("get_bus", -1, 0, -1, TRUE),
                           Call("set_slave", -1, 0, -1, okslave)>>
                    ELSE <<Call("get_bus", -1, 0, -1, FALSE)>>
        /\ pc' = IF okbus /\ okslave THEN "new_chip_id" ELSE "done"
        /\ result' = IF okbus /\ okslave THEN NoResult ELSE Err("TransportFailure")
    /\ UNCHANGED <<handle, dev>>

\* read the identity register and compare it with the expected constant
ReadChipId(drv, next) ==
    /\ pc = "new_chip_id" /\ op.drv = drv
    /\ \E ok \in BOOLEAN :
        IF ok
        THEN /\ calls' = Append(calls, Call("read_byte", ChipIdRegister(drv), 1, dev.id, TRUE))
             /\ loc' = [loc EXCEPT !.chip_id = dev.id]
             /\ IF UnexpectedChipId(dev.id, drv)
                THEN pc' = "done" /\ result' = Err("UnexpectedChipId")
                ELSE pc' = next /\ UNCHANGED result
             /\ UNCHANGED <<op, handle, dev>>
        ELSE Fail(Call("read_byte", ChipIdRegister(drv), 1, -1, FALSE))

\* soft_reset: write the command, then sleep for the startup delay
SoftReset(drv, reg, cmd, delay_ms, next) ==
    /\ pc = "new_soft_reset" /\ op.drv = drv
    /\ \E ok \in BOOLEAN :
        IF ok
        THEN /\ calls' = calls \o <<Call("write_byte", reg, 1, cmd, TRUE),
                                    Call("sleep", -1, delay_ms, -1, TRUE)>>
             /\ dev' = DevWrite(dev, drv, reg, cmd)
             /\ pc' = next
             /\ UNCHANGED <<op, handle, loc, result>>
        ELSE Fail(Call("write_byte", reg, 1, cmd, FALSE))

\* one i2c_read_block_data(reg, &mut reg_data)? of get_calib_data: the count
\* it returns is bound to _bytes_read and not looked at
ReadCalibBlock(drv, k, reg, len, next) ==
    /\ pc = "new_calib" /\ op.drv = drv /\ Len(loc.calib_filled) = k - 1
    /\ \E ok \in BOOLEAN :
        IF ok
        THEN \E n \in Delivered(len), build \in Builds :
             LET reg_data == FillBuffer(dev.trim, len, n)
                 overflow == drv = "BMP388" /\ CalibOverflows(reg_data)
             IN
             /\ overflow \/ build = "release"      \* without overflow the builds agree
             /\ calls' = Append(calls, Call("read_block", reg, len, n, TRUE))
             /\ IF overflow /\ build = "debug"
                THEN pc' = "panicked" /\ UNCHANGED loc
                ELSE /\ loc' = [loc EXCEPT
                                  !.calib_filled = Append(@, n),
                                  !.calib_data =
                                      IF drv = "BMP388" THEN DecodeCalib(reg_data) ELSE @]
                     /\ pc' = next
             /\ UNCHANGED <<op, handle, dev, result>>
        ELSE Fail(Call("read_block", reg, len, -1, FALSE))

\* the last fallible statement of new is a register write; Ok(handle) follows
WriteByteReturnHandle(reg, val) ==
    \E ok \in BOOLEAN :
        IF ok
        THEN /\ calls' = Append(calls, Call("write_byte", reg, 1, val, TRUE))
             /\ dev' = DevWrite(dev, op.drv, reg, val)
             /\ pc' = "done"
             /\ handle' = NewHandle(op.drv, loc)
             /\ result' = Ok("handle")
             /\ UNCHANGED <<op, loc>>
        ELSE Fail(Call("write_byte", reg, 1, val, FALSE))

BMP388_new ==
    /\ handle.drv = "none"
    /\ \E a \in OsrArgs :
           OpenBus([name |-> "new", drv |-> "BMP388",
                    args |-> [osr_p |-> a[1], osr_t |-> a[2],
                              irr_filter |-> "Off", odr |-> "Ax200Hz"]])
    /\ UNCHANGED main

BMP388_new_chip_id ==
    /\ op.name = "new"
    /\ ReadChipId("BMP388", "new_soft_reset")
    /\ UNCHANGED main

BMP388_soft_reset ==
    /\ op.name = "new"
    /\ SoftReset("BMP388", BMP388_REG_CMD, BMP388_CMD_SOFT_RESET,
                 BMP388_STARTUP_DELAY_MS, "new_calib")
    /\ UNCHANGED main

BMP388_get_calib_data ==
    /\ op.name = "new"
    /\ ReadCalibBlock("BMP388", 1, BMP388_REG_TRIMMING_COEFFICIENTS,
                      BMP388_LEN_TRIMMING_COEFFICIENTS, "new_osr")
    /\ UNCHANGED main

BMP388_new_set_osr_pressure_temperature ==
    /\ pc = "new_osr" /\ op.drv = "BMP388"
    /\ WriteByteStep(BMP388_REG_OVERSAMPLING_RATE,
                     OsrRegVal(op.args.osr_p, op.args.osr_t), "new_irr")
    /\ UNCHANGED main

BMP388_new_set_irr_filter ==
    /\ pc = "new_irr" /\ op.drv = "BMP388"
    /\ WriteByteStep(BMP388_REG_CONFIG, BMP388IrrFilter_value(op.args.irr_filter),
                     "new_odr")
    /\ UNCHANGED main

BMP388_new_set_output_data_rate ==
    /\ pc = "new_odr" /\ op.drv = "BMP388"
    /\ WriteByteReturnHandle(BMP388_REG_OUTPUT_DATA_RATE,
                             BMP388OutputDataRate_value(op.args.odr))
    /\ UNCHANGED main

BME280_new ==
    /\ handle.drv = "none"
    /\ OpenBus([name |-> "new", drv |-> "BME280", args |-> <<>>])
    /\ UNCHANGED main

BME280_new_chip_id ==
    /\ op.name = "new"
    /\ ReadChipId("BME280", "new_soft_reset")
    /\ UNCHANGED main

BME280_soft_reset ==
    /\ op.name = "new"
    /\ SoftReset("BME280", BME280_REG_RESET, BME280_SOFT_RESET_COMMAND,
                 BME280_STARTUP_DELAY_MS, "new_calib")
    /\ UNCHANGED main

BME280_get_calib_data_1 ==
    /\ op.name = "new"
    /\ ReadCalibBlock("BME280", 1, BME280_REG_TEMP_PRESS_CALIB_DATA,
                      BME280_LEN_TEMP_PRESS_CALIB_DATA, "new_calib")
    /\ UNCHANGED main

\* the second block read is the last fallible statement of BME280::new
BME280_get_calib_data_2 ==
    /\ pc = "new_calib" /\ op.drv = "BME280" /\ Len(loc.calib_filled) = 1
    /\ \E ok \in BOOLEAN :
        IF ok
        THEN \E n \in Delivered(BME280_LEN_HUMIDITY_CALIB_DATA) :
             /\ calls' = Append(calls, Call("read_block", BME280_REG_HUMIDITY_CALIB_DATA,
                                            BME280_LEN_HUMIDITY_CALIB_DATA, n, TRUE))
             /\ loc' = [loc EXCEPT !.calib_filled = Append(@, n)]
             /\ handle' = NewHandle("BME280", loc')
             /\ pc' = "done"
             /\ result' = Ok("handle")
             /\ UNCHANGED <<op, dev>>
        ELSE Fail(Call("read_block", BME280_REG_HUMIDITY_CALIB_DATA,
                       BME280_LEN_HUMIDITY_CALIB_DATA, -1, FALSE))
    /\ UNCHANGED main

BME680_new ==
    /\ handle.drv = "none"
    /\ OpenBus([name |-> "new", drv |-> "BME680",
                args |-> [humidity_osr |-> "Oversampling1x", pressure_osr |-> "Oversampling4x",
                          temperature_osr |-> "Oversampling2x", irr_filter |-> "Coef3"]])
    /\ UNCHANGED main

\* BME680::new reads the calibration blocks right after the identity check
BME680_new_chip_id ==
    /\ op.name = "new"
    /\ ReadChipId("BME680", "new_calib")
    /\ UNCHANGED main

BME680_get_calib_data_1 ==
    /\ op.name = "new"
    /\ ReadCalibBlock("BME680", 1, BME680_REG_CALIB_DATA1_BASE, BME680_CALIB_DATA1_LEN,
                      "new_calib")
    /\ UNCHANGED main

BME680_get_calib_data_2 ==
    /\ op.name = "new"
    /\ ReadCalibBlock("BME680", 2, BME680_REG_CALIB_DATA2_BASE, BME680_CALIB_DATA2_LEN,
                      "new_calib")
    /\ UNCHANGED main

BME680_get_calib_data_3 ==
    /\ op.name = "new"
    /\ ReadCalibBlock("BME680", 3, BME680_REG_CALIB_DATA3_BASE, BME680_CALIB_DATA3_LEN,
                      "new_soft_reset")
    /\ UNCHANGED main

BME680_soft_reset ==
    /\ op.name = "new"
    /\ SoftReset("BME680", BME680_REG_RESET, BME680_COMMAND_SOFT_RESET,
                 BME680_STARTUP_DELAY_MS, "new_osr_h")
    /\ UNCHANGED main

BME680_set_humidity_osr ==
    /\ pc = "new_osr_h" /\ op.drv = "BME680"
    /\ WriteByteStep(BME680_REG_CTRL_HUM, Bme680OverSampling_value(op.args.humidity_osr),
                     "new_osr")
    /\ UNCHANGED main

BME680_set_pressure_and_temperature_osr ==
    /\ pc = "new_osr" /\ op.drv = "BME680"
    /\ WriteByteStep(BME680_REG_CTRL_MEAS,
                     BitOr(Shl8(Bme680OverSampling_value(op.args.temperature_osr),
                                BME680_CTRL_MEAS_TEMPERATURE_SHL),
                           Shl8(Bme680OverSampling_value(op.args.pressure_osr),
                                BME680_CTRL_MEAS_PRESSURE_SHL)),
                     "new_irr")
    /\ UNCHANGED main

BME680_set_irr_filter ==
    /\ pc = "new_irr" /\ op.drv = "BME680"
    /\ WriteByteReturnHandle(BME680_REG_CONFIG,
                             Shl8(Bme680IrrFilter_value(op.args.irr_filter),
                                  BME680_CONTROL_IIR_FILTER_SHL))
    /\ UNCHANGED main

(***************************************************************************)
(* BMP388 mode/status controller.                                           *)
(***************************************************************************)
\* arguments of set_sensor_mode the model draws from: <<pwr_mode, p, t>>
ModeArgs ==
    {"Sleep", "Forced", "Normal"} \X {"Disabled", "Enabled"} \X {"Disabled", "Enabled"}

\* status and interrupt-status bytes the chip may answer
StatusBytes == {0, 16, 112}

IntStatusBytes == {0, 8}

BMP388_REG_STATUS == 3
BMP388_REG_INT_STATUS == 17               \* 0x11
BMP280_STATUS_CMD_READY_MASK == 16        \* 0x10
BMP280_STATUS_PRESSURE_DATA_READY_MASK == 32
BMP280_STATUS_TEMPERATURE_DATA_READY_MASK == 64
BMP280_INT_STATUS_DATA_READY_BIT == 8

\* PowerControlRegVal with the two enable flags in each other's bit
PowerControlRegValSwapped(pwr_mode, enable_pressure, enable_temperature) ==
    BitOr(BitOr(Shl8(BMP388SensorPowerMode_value(pwr_mode), BMP280_POWER_MODE_LOW_BIT),
                Shl8(EnableValue(enable_pressure), 1)),
          EnableValue(enable_temperature))

\* let reg_val = pwr_mode.value() << 4 | enable_temperature.value() << 1 | enable_pressure.value()
PowerControlRegVal(pwr_mode, enable_pressure, enable_temperature) ==
    BitOr(BitOr(Shl8(BMP388SensorPowerMode_value(pwr_mode), BMP280_POWER_MODE_LOW_BIT),
                Shl8(EnableValue(enable_temperature), 1)),
          EnableValue(enable_pressure))

\* match reg_val >> 4 { 0 => Sleep, 1..=2 => Forced, _ => Normal }
DecodePowerMode(reg_val) ==
    LET m == Shr(reg_val, BMP280_POWER_MODE_LOW_BIT) IN
    IF m = 0 THEN "Sleep" ELSE IF m \in 1..2 THEN "Forced" ELSE "Normal"

DecodeSensorMode(reg_val) ==
    [sensor_mode |-> DecodePowerMode(reg_val),
     pressure_enabled |->
        IF BitAnd(reg_val, BMP280_PRESSURE_SENSOR_ENABLED_BIT) > 0
        THEN "Enabled" ELSE "Disabled",
     temperature_enabled |->
        IF BitAnd(reg_val, BMP280_TEMPERATURE_SENSOR_ENABLED_BIT) > 0
        THEN "Enabled" ELSE "Disabled"]

DecodeStatus(reg_val) ==
    [cmd_decoder_ready |-> BitAnd(reg_val, BMP280_STATUS_CMD_READY_MASK) > 0,
     pressure_data_ready |-> BitAnd(reg_val, BMP280_STATUS_PRESSURE_DATA_READY_MASK) > 0,
     temperature_data_ready |->
        BitAnd(reg_val, BMP280_STATUS_TEMPERATURE_DATA_READY_MASK) > 0]

\* a public method of the BMP388 handle starts
BeginMethod(name, args) ==
    /\ handle.drv = "BMP388"
    /\ Begin([name |-> name, drv |-> "BMP388", args |-> args])

\* a method that is one register write: Ok(()) or the transport's error
WriteMethod(name, args, reg, val) ==
    /\ BeginMethod(name, args)
    /\ \E ok \in BOOLEAN :
        /\ calls' = <<Call("write_byte", reg, 1, val, ok)>>
        /\ dev' = IF ok THEN DevWrite(dev, "BMP388", reg, val) ELSE dev
        /\ result' = IF ok THEN Ok(<<>>) ELSE Err("TransportFailure")
    /\ pc' = "done"
    /\ UNCHANGED handle

\* a method that is one register read, decoded by the method: outcomes holds
\* the pairs <<value read, value returned>>
ReadMethod(name, kind, reg, outcomes) ==
    /\ BeginMethod(name, <<>>)
    /\ \E ok \in BOOLEAN, o \in outcomes :
        /\ calls' = <<Call(kind, reg, 1, IF ok THEN o[1] ELSE -1, ok)>>
        /\ result' = IF ok THEN Ok(o[2]) ELSE Err("TransportFailure")
    /\ pc' = "done"
    /\ UNCHANGED <<handle, dev>>

BMP388_set_output_data_rate ==
    /\ handle.drv = "BMP388"
    /\ WriteMethod("set_output_data_rate", [odr |-> "Bx100Hz"],
                   BMP388_REG_OUTPUT_DATA_RATE, BMP388OutputDataRate_value("Bx100Hz"))
    /\ UNCHANGED main

BMP388_set_irr_filter ==
    /\ handle.drv = "BMP388"
    /\ WriteMethod("set_irr_filter", [irr_filter |-> "Coef3"],
                   BMP388_REG_CONFIG, BMP388IrrFilter_value("Coef3"))
    /\ UNCHANGED main

BMP388_set_osr_pressure_temperature ==
    /\ handle.drv = "BMP388"
    /\ \E a \in OsrArgs :
           WriteMethod("set_osr_pressure_temperature", [osr_p |-> a[1], osr_t |-> a[2]],
                       BMP388_REG_OVERSAMPLING_RATE, OsrRegVal(a[1], a[2]))
    /\ UNCHANGED main

BMP388_set_sensor_mode ==
    /\ handle.drv = "BMP388"
    /\ \E a \in ModeArgs :
           /\ Calls("set_sensor_mode", a)
           /\ WriteMethod("set_sensor_mode",
                  [pwr_mode |-> a[1], enable_pressure |-> a[2], enable_temperature |-> a[3]],
                  BMP388_REG_POWER_CONTROL, PowerControlRegVal(a[1], a[2], a[3]))
    /\ UNCHANGED main

BMP388_get_sensor_mode ==
    /\ handle.drv = "BMP388"
    /\ Calls("get_sensor_mode", <<>>)
    /\ ReadMethod("get_sensor_mode", "read_byte", BMP388_REG_POWER_CONTROL,
               {<<dev.pwr_ctrl, DecodeSensorMode(dev.pwr_ctrl)>>})
    /\ UNCHANGED main

BMP388_get_status ==
    /\ handle.drv = "BMP388"
    /\ Calls("get_status", <<>>)
    /\ ReadMethod("get_status", "read_byte", BMP388_REG_STATUS,
               {<<v, DecodeStatus(v)>> : v \in StatusBytes})
    /\ UNCHANGED main

IsDataReady(int_status) == BitAnd(int_status, BMP280_INT_STATUS_DATA_READY_BIT) > 0

BMP388_is_data_ready ==
    /\ handle.drv = "BMP388"
    /\ Calls("is_data_ready", <<>>)
    /\ ReadMethod("is_data_ready", "read_byte", BMP388_REG_INT_STATUS,
               {<<v, IsDataReady(v)>> : v \in IntStatusBytes})
    /\ UNCHANGED main

\* the chip ends a Forced conversion on its own and falls back to Sleep
Chip_conversion_done ==
    /\ DecodePowerMode(dev.pwr_ctrl) = "Forced"
    /\ dev' = [dev EXCEPT !.pwr_ctrl = dev.pwr_ctrl % 16]
    /\ UNCHANGED <<pc, op, handle, calls, loc, result>>
    /\ UNCHANGED main

(***************************************************************************)
(* BMP388 FIFO: configuration.                                              *)
(***************************************************************************)
BMP388_REG_FIFO_LENGTH == 18              \* 0x12
BMP388_REG_FIFO_DATA == 20                \* 0x14
BMP388_REG_FIFO_WATERMARK == 21           \* 0x15
BMP388_REG_FIFO_CONFIG_1 == 23            \* 0x17
BMP388_REG_FIFO_CONFIG_2 == 24            \* 0x18
BMP388_CMD_FIFO_FLUSH == 176              \* 0xb0
BMP280_FIFO_DISABLE_FIFO == 0
BMP280_FIFO_STOP_ON_FULL_BIT == 1
BMP280_FIFO_SENSOR_TIME_ENABLE_BIT == 2
BMP280_FIFO_PRESSURE_ENABLE_BIT == 3
BMP280_FIFO_TEMPERATURE_ENABLE_BIT == 4
BMP280_FIFO_DATA_SELECT_BIT == 3

\* arguments of enable_fifo the model draws from
SubsamplingArgs == {-1, 0, 3, 9, 127}

EnableFifoArgs ==
    [stop_on_full : {"Enabled"}, with_pressure : {"Enabled"},
     with_temperature : {"Enabled"}, with_sensor_time : {"Disabled", "Enabled"},
     data_filtered : {"Unfiltered", "Filtered"}, subsampling : SubsamplingArgs]

\* BMP388FifoDataFiltered::value
DataFilteredValue(e) == IF e = "Filtered" THEN 1 ELSE 0

\* let subsampling = match subsampling.is_negative() { false => subsampling as u8, true => 0 };
\* let reg_config_2 = data_filtered.value() << 3 | subsampling
FifoConfig2RegVal(data_filtered, subsampling) ==
    BitOr(Shl8(DataFilteredValue(data_filtered), BMP280_FIFO_DATA_SELECT_BIT),
          IF subsampling < 0 THEN 0 ELSE subsampling)

FifoConfig1RegVal(stop_on_full, with_pressure, with_temperature, with_sensor_time) ==
    BitOr(BitOr(BitOr(BitOr(
        Shl8(EnableValue(with_temperature), BMP280_FIFO_TEMPERATURE_ENABLE_BIT),
        Shl8(EnableValue(with_pressure), BMP280_FIFO_PRESSURE_ENABLE_BIT)),
        Shl8(EnableValue(with_sensor_time), BMP280_FIFO_SENSOR_TIME_ENABLE_BIT)),
        Shl8(EnableValue(stop_on_full), BMP280_FIFO_STOP_ON_FULL_BIT)),
        1)

\* enable_fifo starts with self.flush_fifo()?
BMP388_enable_fifo ==
    /\ handle.drv = "BMP388"
    /\ \E a \in EnableFifoArgs, ok \in BOOLEAN :
        /\ Begin([name |-> "enable_fifo", drv |-> "BMP388", args |-> a])
        /\ calls' = <<Call("write_byte", BMP388_REG_CMD, 1, BMP388_CMD_FIFO_FLUSH, ok)>>
        /\ pc' = IF ok THEN "fifo_config_2" ELSE "done"
        /\ result' = IF ok THEN NoResult ELSE Err("TransportFailure")
    /\ UNCHANGED <<handle, dev>>
    /\ UNCHANGED main

BMP388_enable_fifo_config_2 ==
    /\ pc = "fifo_config_2"
    /\ WriteByteStep(BMP388_REG_FIFO_CONFIG_2,
                     FifoConfig2RegVal(op.args.data_filtered, op.args.subsampling),
                     "fifo_config_1")
    /\ UNCHANGED main

\* the config-1 write of an enable_fifo that stores the flag before it looks
\* at the result of the write
BMP388_enable_fifo_config_1_flag_first ==
    /\ pc = "fifo_config_1"
    /\ \E ok \in BOOLEAN :
        /\ calls' = Append(calls,
                Call("write_byte", BMP388_REG_FIFO_CONFIG_1, 1,
                     FifoConfig1RegVal(op.args.stop_on_full, op.args.with_pressure,
                                       op.args.with_temperature, op.args.with_sensor_time),
                     ok))
        /\ handle' = [handle EXCEPT !.with_sensor_time = op.args.with_sensor_time]
        /\ result' = IF ok THEN Ok(<<>>) ELSE Err("TransportFailure")
    /\ pc' = "done"
    /\ UNCHANGED <<op, dev, loc>>
    /\ UNCHANGED main

\* if result.is_ok() { self.with_sensor_time = with_sensor_time; } result
BMP388_enable_fifo_config_1 ==
    /\ pc = "fifo_config_1"
    /\ \E ok \in BOOLEAN :
        /\ calls' = Append(calls,
                Call("write_byte", BMP388_REG_FIFO_CONFIG_1, 1,
                     FifoConfig1RegVal(op.args.stop_on_full, op.args.with_pressure,
                                       op.args.with_temperature, op.args.with_sensor_time),
                     ok))
        /\ handle' = IF ok
                     THEN [handle EXCEPT !.with_sensor_time = op.args.with_sensor_time]
                     ELSE handle
        /\ result' = IF ok THEN Ok(<<>>) ELSE Err("TransportFailure")
    /\ pc' = "done"
    /\ UNCHANGED <<op, dev, loc>>
    /\ UNCHANGED main

BMP388_disable_fifo ==
    /\ handle.drv = "BMP388"
    /\ WriteMethod("disable_fifo", <<>>, BMP388_REG_FIFO_CONFIG_1, BMP280_FIFO_DISABLE_FIFO)
    /\ UNCHANGED main

BMP388_flush_fifo ==
    /\ handle.drv = "BMP388"
    /\ WriteMethod("flush_fifo", <<>>, BMP388_REG_CMD, BMP388_CMD_FIFO_FLUSH)
    /\ UNCHANGED main

\* queue lengths and watermarks the chip may report
FifoLengths == {0, 4, 7, 8, 11}

BMP388_get_fifo_length ==
    /\ handle.drv = "BMP388"
    /\ Calls("get_fifo_length", <<>>)
    /\ ReadMethod("get_fifo_length", "read_word", BMP388_REG_FIFO_LENGTH,
                  {<<v, v>> : v \in FifoLengths})
    /\ UNCHANGED main

BMP388_get_fifo_watermark ==
    /\ handle.drv = "BMP388"
    /\ ReadMethod("get_fifo_watermark", "read_word", BMP388_REG_FIFO_WATERMARK,
                  {<<v, v>> : v \in {0, 7}})
    /\ UNCHANGED main

(***************************************************************************)
(* BMP388 FIFO: the frame decoder.                                          *)
(***************************************************************************)
BMP280_FIFO_SENSOR_FRAME_BIT == 128                  \* 0x80
BMP280_FIFO_CONTROL_FRAME_BIT == 64                  \* 0x40
BMP280_FIFO_CONTROL_FRAME_CONFIG_ERROR_BIT == 4
BMP280_FIFO_CONTROL_FRAME_CONFIG_CHANGE_BIT == 8
BMP280_FIFO_SENSOR_FRAME_SENSOR_TIME_BIT == 32       \* 0x20
BMP280_FIFO_SENSOR_FRAME_TEMPERATURE_BIT == 16       \* 0x10
BMP280_FIFO_SENSOR_FRAME_PRESSURE_BIT == 4
BMP280_FIFO_FRAMLE_LENGTH_SENSOR_TIME == 4
BMP280_FIFO_FRAMLE_LENGTH_PRESSURE == 4
BMP280_FIFO_FRAMLE_LENGTH_TEMPERATURE == 4
BMP280_FIFO_FRAMLE_LENGTH_PRESSURE_TEMPERATURE == 7

\* Option::None of the u32 fields of FifoData
None == -1

FifoData(pressure_raw, temperature_raw, sensor_time, config_change) ==
    [pressure_raw |-> pressure_raw, temperature_raw |-> temperature_raw,
     sensor_time |-> sensor_time, config_change |-> config_change]

\* header bytes the chip may answer: every combination of the frame-type bits,
\* the temperature and pressure bits and the control-frame flags
Headers == {h \in 0..255 : BitAnd(h, 35) = 0}

\* header bytes a block read may deliver in front of a sensor-time field
TimeHeaders == {160, 128}

\* the bytes the chip delivers in a block read of len bytes, n of them filled:
\* byte 0 is h0, the byte at index t (if any) is th, the others are payload
FrameBuffer(len, n, h0, t, th) ==
    [i \in 1..len |->
        IF i > n THEN 0
        ELSE IF i = 1 THEN h0
        ELSE IF i = t + 1 THEN th
        ELSE 16 + i]

\* msb << 16 | lsb << 8 | xlsb of the three bytes from index i (0-based)
Raw24(read_buf, i) ==
    BitOr(BitOr(read_buf[i + 3] * 65536, read_buf[i + 2] * 256), read_buf[i + 1])

\* Field without the guard on the count of bytes read
FieldIgnoringCount(enough, read_buf, h, flag, i) ==
    IF BitAnd(read_buf[h + 1], flag) > 0 THEN Raw24(read_buf, i) ELSE None

\* a field guarded by the count of bytes read and by its flag in the header at h
Field(enough, read_buf, h, flag, i) ==
    IF enough
    THEN IF BitAnd(read_buf[h + 1], flag) > 0 THEN Raw24(read_buf, i) ELSE None
    ELSE None

read_fifo_frame_temperature(bytes_read, read_buf) ==
    FifoData(None,
             Field(bytes_read = BMP280_FIFO_FRAMLE_LENGTH_TEMPERATURE, read_buf, 0,
                   BMP280_FIFO_SENSOR_FRAME_TEMPERATURE_BIT, 1),
             None, FALSE)

read_fifo_frame_temperature_with_time(bytes_read, read_buf) ==
    FifoData(None,
             Field(bytes_read >= BMP280_FIFO_FRAMLE_LENGTH_TEMPERATURE, read_buf, 0,
                   BMP280_FIFO_SENSOR_FRAME_TEMPERATURE_BIT, 1),
             Field(bytes_read = BMP280_FIFO_FRAMLE_LENGTH_TEMPERATURE
                                + BMP280_FIFO_FRAMLE_LENGTH_SENSOR_TIME, read_buf, 4,
                   BMP280_FIFO_SENSOR_FRAME_SENSOR_TIME_BIT, 5),
             FALSE)

\* read_fifo_frame_pressure returning its value in the temperature field
read_fifo_frame_pressure_as_temperature(bytes_read, read_buf) ==
    FifoData(None,
             Field(bytes_read = BMP280_FIFO_FRAMLE_LENGTH_PRESSURE, read_buf, 0,
                   BMP280_FIFO_SENSOR_FRAME_PRESSURE_BIT, 1),
             None, FALSE)

read_fifo_frame_pressure(bytes_read, read_buf) ==
    FifoData(Field(bytes_read = BMP280_FIFO_FRAMLE_LENGTH_PRESSURE, read_buf, 0,
                   BMP280_FIFO_SENSOR_FRAME_PRESSURE_BIT, 1),
             None, None, FALSE)

read_fifo_frame_pressure_with_time(bytes_read, read_buf) ==
    FifoData(Field(bytes_read >= BMP280_FIFO_FRAMLE_LENGTH_PRESSURE, read_buf, 0,
                   BMP280_FIFO_SENSOR_FRAME_PRESSURE_BIT, 1),
             None,
             Field(bytes_read = BMP280_FIFO_FRAMLE_LENGTH_PRESSURE
                                + BMP280_FIFO_FRAMLE_LENGTH_SENSOR_TIME, read_buf, 4,
                   BMP280_FIFO_SENSOR_FRAME_SENSOR_TIME_BIT, 5),
             FALSE)

read_fifo_frame_pressure_temperature(bytes_read, read_buf) ==
    FifoData(Field(bytes_read = BMP280_FIFO_FRAMLE_LENGTH_PRESSURE_TEMPERATURE, read_buf, 0,
                   BMP280_FIFO_SENSOR_FRAME_PRESSURE_BIT, 4),
             Field(bytes_read >= BMP280_FIFO_FRAMLE_LENGTH_TEMPERATURE, read_buf, 0,
                   BMP280_FIFO_SENSOR_FRAME_TEMPERATURE_BIT, 1),
             None, FALSE)

read_fifo_frame_pressure_temperature_with_time(bytes_read, read_buf) ==
    FifoData(Field(bytes_read >= BMP280_FIFO_FRAMLE_LENGTH_PRESSURE_TEMPERATURE, read_buf, 0,
                   BMP280_FIFO_SENSOR_FRAME_PRESSURE_BIT, 4),
             Field(bytes_read >= BMP280_FIFO_FRAMLE_LENGTH_TEMPERATURE, read_buf, 0,
                   BMP280_FIFO_SENSOR_FRAME_TEMPERATURE_BIT, 1),
             Field(bytes_read = BMP280_FIFO_FRAMLE_LENGTH_PRESSURE_TEMPERATURE
                                + BMP280_FIFO_FRAMLE_LENGTH_SENSOR_TIME, read_buf, 7,
                   BMP280_FIFO_SENSOR_FRAME_SENSOR_TIME_BIT, 8),
             FALSE)

\* IsControlFrame testing the top bit of the header
IsControlFrameTopBit(header) == BitAnd(header, BMP280_FIFO_SENSOR_FRAME_BIT) > 0

\* if header & BMP280_FIFO_CONTROL_FRAME_BIT > 0
IsControlFrame(header) == BitAnd(header, BMP280_FIFO_CONTROL_FRAME_BIT) > 0

\* else if header & BMP280_FIFO_SENSOR_FRAME_BIT > 0
IsSensorFrame(header) == BitAnd(header, BMP280_FIFO_SENSOR_FRAME_BIT) > 0

HasConfigError(header) == BitAnd(header, BMP280_FIFO_CONTROL_FRAME_CONFIG_ERROR_BIT) > 0

\* HasConfigChange testing the temperature flag of a sensor frame
HasConfigChangeWrongBit(header) ==
    BitAnd(header, BMP280_FIFO_SENSOR_FRAME_TEMPERATURE_BIT) > 0

HasConfigChange(header) == BitAnd(header, BMP280_FIFO_CONTROL_FRAME_CONFIG_CHANGE_BIT) > 0

HasTemperature(header) == BitAnd(header, BMP280_FIFO_SENSOR_FRAME_TEMPERATURE_BIT) > 0

HasPressure(header) == BitAnd(header, BMP280_FIFO_SENSOR_FRAME_PRESSURE_BIT) > 0

(***************************************************************************)
(* The queue of the chip. dev.fifo is its length in bytes where the model   *)
(* follows it (the chip then holds pressure-and-temperature frames only),   *)
(* and negative where it does not: the chip may then answer any header and  *)
(* any length.                                                              *)
(***************************************************************************)
MaxQueue == 21

\* header bytes of a pressure-and-temperature frame and of the empty frame
QueueHeaders(d) ==
    IF d.fifo < 0 THEN Headers
    ELSE IF d.fifo > 0
    THEN {BMP280_FIFO_SENSOR_FRAME_BIT + BMP280_FIFO_SENSOR_FRAME_TEMPERATURE_BIT
          + BMP280_FIFO_SENSOR_FRAME_PRESSURE_BIT}
    ELSE {BMP280_FIFO_SENSOR_FRAME_BIT}

QueueLengths(d) == IF d.fifo < 0 THEN FifoLengths ELSE {d.fifo}

\* a block read from the queue-data register takes the first frame out
QueueAfterFrame(d) ==
    IF d.fifo < BMP280_FIFO_FRAMLE_LENGTH_PRESSURE_TEMPERATURE THEN d
    ELSE [d EXCEPT !.fifo = @ - BMP280_FIFO_FRAMLE_LENGTH_PRESSURE_TEMPERATURE]

\* in Normal mode the chip appends a frame to its queue at its own pace
Chip_append_frame ==
    /\ dev.fifo >= 0
    /\ DecodePowerMode(dev.pwr_ctrl) = "Normal"
    /\ dev.fifo + BMP280_FIFO_FRAMLE_LENGTH_PRESSURE_TEMPERATURE <= MaxQueue
    /\ dev' = [dev EXCEPT !.fifo = @ + BMP280_FIFO_FRAMLE_LENGTH_PRESSURE_TEMPERATURE]
    /\ UNCHANGED <<pc, op, handle, calls, loc, result>>
    /\ UNCHANGED main

\* WithTime looking at the cached flag alone
WithTimeIgnoringLength(with_sensor_time, fifo_length, frame_length) ==
    with_sensor_time = "Enabled"

\* AfterHeader with the config-change flag tested before the error flag
AfterHeaderChangeFirst(header) ==
    IF BitAnd(header, BMP280_FIFO_CONTROL_FRAME_BIT) > 0
    THEN IF BitAnd(header, BMP280_FIFO_CONTROL_FRAME_CONFIG_CHANGE_BIT) > 0
         THEN "discard_config_change"
         ELSE IF BitAnd(header, BMP280_FIFO_CONTROL_FRAME_CONFIG_ERROR_BIT) > 0
         THEN "discard_config_error"
         ELSE "unknown_control_header"
    ELSE IF BitAnd(header, BMP280_FIFO_SENSOR_FRAME_BIT) > 0 THEN "fifo_length"
    ELSE "unknown_header"

\* where read_next_fifo_data_frame goes after the header read
AfterHeader(header) ==
    IF IsControlFrame(header)
    THEN IF HasConfigError(header) THEN "discard_config_error"
         ELSE IF HasConfigChange(header) THEN "discard_config_change"
         ELSE "unknown_control_header"
    ELSE IF IsSensorFrame(header) THEN "fifo_length"
    ELSE "unknown_header"

\* WithTime comparing the queue length with the frame and its time field
WithTimeCountingTimeField(with_sensor_time, fifo_length, frame_length) ==
    /\ with_sensor_time = "Enabled"
    /\ fifo_length = frame_length + BMP280_FIFO_FRAMLE_LENGTH_SENSOR_TIME

\* self.with_sensor_time == Enabled && fifo_length == <length of the frame>
WithTime(with_sensor_time, fifo_length, frame_length) ==
    with_sensor_time = "Enabled" /\ fifo_length = frame_length

\* FrameShape without the empty frame: a header with neither flag is read as
\* a pressure frame
FrameShapeNoEmpty(header, with_sensor_time, fifo_length) ==
    IF BitAnd(header, BMP280_FIFO_SENSOR_FRAME_TEMPERATURE_BIT) > 0
       /\ BitAnd(header, BMP280_FIFO_SENSOR_FRAME_PRESSURE_BIT) > 0
    THEN IF WithTime(with_sensor_time, fifo_length,
                     BMP280_FIFO_FRAMLE_LENGTH_PRESSURE_TEMPERATURE)
         THEN "frame_pressure_temperature_with_time"
         ELSE "frame_pressure_temperature"
    ELSE IF BitAnd(header, BMP280_FIFO_SENSOR_FRAME_TEMPERATURE_BIT) > 0
    THEN IF WithTime(with_sensor_time, fifo_length, BMP280_FIFO_FRAMLE_LENGTH_TEMPERATURE)
         THEN "frame_temperature_with_time"
         ELSE "frame_temperature"
    ELSE IF WithTime(with_sensor_time, fifo_length, BMP280_FIFO_FRAMLE_LENGTH_PRESSURE)
    THEN "frame_pressure_with_time"
    ELSE "frame_pressure"

\* the frame reader a sensor-frame header selects once the queue length is known
FrameShape(header, with_sensor_time, fifo_length) ==
    IF HasTemperature(header) /\ HasPressure(header)
    THEN IF WithTime(with_sensor_time, fifo_length,
                     BMP280_FIFO_FRAMLE_LENGTH_PRESSURE_TEMPERATURE)
         THEN "frame_pressure_temperature_with_time"
         ELSE "frame_pressure_temperature"
    ELSE IF HasTemperature(header)
    THEN IF WithTime(with_sensor_time, fifo_length, BMP280_FIFO_FRAMLE_LENGTH_TEMPERATURE)
         THEN "frame_temperature_with_time"
         ELSE "frame_temperature"
    ELSE IF HasPressure(header)
    THEN IF WithTime(with_sensor_time, fifo_length, BMP280_FIFO_FRAMLE_LENGTH_PRESSURE)
         THEN "frame_pressure_with_time"
         ELSE "frame_pressure"
    ELSE "discard_empty"

\* let header = self.get_fifo_data()?; followed by the classification
BMP388_read_next_fifo_data_frame ==
    /\ handle.drv = "BMP388"
    /\ pc = "idle"
    /\ Calls("read_next_fifo_data_frame", <<>>)
    /\ op' = [name |-> "read_next_fifo_data_frame", drv |-> "BMP388", args |-> <<>>]
    /\ \E ok \in BOOLEAN, header \in QueueHeaders(dev) :
        IF ok
        THEN /\ calls' = <<Call("read_byte", BMP388_REG_FIFO_DATA, 1, header, TRUE)>>
             /\ loc' = [NoLoc EXCEPT !.header = header, !.fifo_at_header = dev.fifo]
             /\ LET next == AfterHeader(header) IN
                IF next = "unknown_control_header"
                THEN pc' = "done" /\ result' = Err("UnknownFifoControlHeader")
                ELSE IF next = "unknown_header"
                THEN pc' = "done" /\ result' = Err("UnknownFifoHeader")
                ELSE pc' = next /\ result' = NoResult
        ELSE /\ calls' = <<Call("read_byte", BMP388_REG_FIFO_DATA, 1, -1, FALSE)>>
             /\ loc' = NoLoc
             /\ pc' = "done"
             /\ result' = Err("TransportFailure")
    /\ UNCHANGED <<handle, dev>>
    /\ UNCHANGED main

\* let _data_word = self.i2c.smbus_read_word_data(BMP388_REG_FIFO_DATA)?; and
\* the return that follows it
DiscardWord(res) ==
    \E ok \in BOOLEAN :
        IF ok
        THEN /\ calls' = Append(calls, Call("read_word", BMP388_REG_FIFO_DATA, 1, 0, TRUE))
             /\ pc' = "done"
             /\ result' = res
             /\ UNCHANGED <<op, handle, dev, loc>>
        ELSE Fail(Call("read_word", BMP388_REG_FIFO_DATA, 1, -1, FALSE))

BMP388_fifo_config_error ==
    /\ pc = "discard_config_error"
    /\ DiscardWord(Err("FifoConfigError"))
    /\ UNCHANGED main

BMP388_fifo_config_change ==
    /\ pc = "discard_config_change"
    /\ DiscardWord(Ok(FifoData(None, None, None, TRUE)))
    /\ UNCHANGED main

BMP388_fifo_empty_frame ==
    /\ pc = "discard_empty"
    /\ DiscardWord(Ok(FifoData(None, None, None, FALSE)))
    /\ UNCHANGED main

\* let fifo_length = self.get_fifo_length()? as usize; and the choice of reader
BMP388_fifo_read_length ==
    /\ pc = "fifo_length"
    /\ \E ok \in BOOLEAN :
        IF ok
        THEN \E fifo_length \in QueueLengths(dev) :
             /\ calls' = Append(calls,
                    Call("read_word", BMP388_REG_FIFO_LENGTH, 1, fifo_length, TRUE))
             /\ loc' = [loc EXCEPT !.fifo_length = fifo_length]
             /\ pc' = FrameShape(loc.header, handle.with_sensor_time, fifo_length)
             /\ UNCHANGED <<op, handle, dev, result>>
        ELSE Fail(Call("read_word", BMP388_REG_FIFO_LENGTH, 1, -1, FALSE))
    /\ UNCHANGED main

\* one read_fifo_frame_* function: a block read of FRAME_LENGTH bytes from the
\* queue-data register, then the fields the count of bytes read allows
DecodeFrame(shape, bytes_read, read_buf) ==
    CASE shape = "frame_temperature" ->
            read_fifo_frame_temperature(bytes_read, read_buf)
      [] shape = "frame_temperature_with_time" ->
            read_fifo_frame_temperature_with_time(bytes_read, read_buf)
      [] shape = "frame_pressure" ->
            read_fifo_frame_pressure(bytes_read, read_buf)
      [] shape = "frame_pressure_with_time" ->
            read_fifo_frame_pressure_with_time(bytes_read, read_buf)
      [] shape = "frame_pressure_temperature" ->
            read_fifo_frame_pressure_temperature(bytes_read, read_buf)
      [] shape = "frame_pressure_temperature_with_time" ->
            read_fifo_frame_pressure_temperature_with_time(bytes_read, read_buf)

ReadFrame(len, t) ==
    \E ok \in BOOLEAN :
        IF ok
        THEN \E n \in 0..len, h0 \in {loc.header, BMP280_FIFO_SENSOR_FRAME_BIT},
                th \in TimeHeaders :
             LET read_buf == FrameBuffer(len, n, h0, t, th) IN
             /\ calls' = Append(calls, Call("read_block", BMP388_REG_FIFO_DATA, len, n, TRUE))
             /\ loc' = [loc EXCEPT !.bytes_read = n, !.read_buf = read_buf]
             /\ pc' = "done"
             /\ result' = Ok(DecodeFrame(pc, n, read_buf))
             /\ dev' = QueueAfterFrame(dev)
             /\ UNCHANGED <<op, handle>>
        ELSE Fail(Call("read_block", BMP388_REG_FIFO_DATA, len, -1, FALSE))

BMP388_read_fifo_frame_temperature ==
    /\ pc = "frame_temperature"
    /\ ReadFrame(BMP280_FIFO_FRAMLE_LENGTH_TEMPERATURE, -1)
    /\ UNCHANGED main

BMP388_read_fifo_frame_temperature_with_time ==
    /\ pc = "frame_temperature_with_time"
    /\ ReadFrame(BMP280_FIFO_FRAMLE_LENGTH_TEMPERATURE + BMP280_FIFO_FRAMLE_LENGTH_SENSOR_TIME,
                 4)
    /\ UNCHANGED main

BMP388_read_fifo_frame_pressure ==
    /\ pc = "frame_pressure"
    /\ ReadFrame(BMP280_FIFO_FRAMLE_LENGTH_PRESSURE, -1)
    /\ UNCHANGED main

BMP388_read_fifo_frame_pressure_with_time ==
    /\ pc = "frame_pressure_with_time"
    /\ ReadFrame(BMP280_FIFO_FRAMLE_LENGTH_PRESSURE + BMP280_FIFO_FRAMLE_LENGTH_SENSOR_TIME,
                 4)
    /\ UNCHANGED main

BMP388_read_fifo_frame_pressure_temperature ==
    /\ pc = "frame_pressure_temperature"
    /\ ReadFrame(BMP280_FIFO_FRAMLE_LENGTH_PRESSURE_TEMPERATURE, -1)
    /\ UNCHANGED main

BMP388_read_fifo_frame_pressure_temperature_with_time ==
    /\ pc = "frame_pressure_temperature_with_time"
    /\ ReadFrame(BMP280_FIFO_FRAMLE_LENGTH_PRESSURE_TEMPERATURE
                 + BMP280_FIFO_FRAMLE_LENGTH_SENSOR_TIME,
                 7)
    /\ UNCHANGED main

BMP388_get_fifo_data ==
    /\ handle.drv = "BMP388"
    /\ ReadMethod("get_fifo_data", "read_byte", BMP388_REG_FIFO_DATA,
                  {<<v, v>> : v \in Headers})
    /\ UNCHANGED main

(***************************************************************************)
(* BMP388 raw reads.                                                        *)
(***************************************************************************)
BMP388_REG_PRESSURE_DATA == 4
BMP388_REG_TEMPERATURE_DATA == 7
BMP388_LEN_PRESSURE_DATA == 3
BMP388_LEN_TEMPERATURE_DATA == 3

\* contents of the data registers 0x04..0x09 of the chip, pressure then
\* temperature, XLSB first: two samples that differ in the low nibbles of
\* their XLSB bytes only
DeviceDataBlocks == {<<52, 18, 101, 120, 86, 129>>, <<60, 18, 101, 127, 86, 129>>}

\* Raw24 with the low nibble of the XLSB byte masked out
Raw24HighNibble(read_buf, i) ==
    BitOr(BitOr(read_buf[i + 3] * 65536, read_buf[i + 2] * 256),
          BitAnd(read_buf[i + 1], 240))

\* DataRaw with the low nibble of both XLSB bytes masked out
DataRawHighNibble(reg_data) ==
    [pressure |-> Raw24HighNibble(reg_data, 0), temperature |-> Raw24HighNibble(reg_data, 3)]

DataRaw(reg_data) == [pressure |-> Raw24(reg_data, 0), temperature |-> Raw24(reg_data, 3)]

Raw24At0(reg_data) == Raw24(reg_data, 0)

\* a raw read: one block read whose count of bytes read is not looked at
RawRead(name, reg, len, block) ==
    /\ handle.drv = "BMP388"
    /\ pc = "idle"
    /\ op' = [name |-> name, drv |-> "BMP388", args |-> <<>>]
    /\ \E ok \in BOOLEAN, n \in Delivered(len) :
        LET reg_data == FillBuffer(block, len, n) IN
        /\ calls' = <<Call("read_block", reg, len, IF ok THEN n ELSE -1, ok)>>
        /\ loc' = IF ok THEN [NoLoc EXCEPT !.bytes_read = n, !.read_buf = reg_data]
                  ELSE NoLoc
        /\ result' = IF ~ok THEN Err("TransportFailure")
                     ELSE IF name = "get_data_raw"
                     THEN Ok(DataRaw(reg_data))
                     ELSE Ok(Raw24At0(reg_data))
    /\ pc' = "done"
    /\ UNCHANGED <<handle, dev>>

BMP388_get_data_raw ==
    /\ handle.drv = "BMP388"
    /\ Calls("get_data_raw", <<>>)
    /\ \E block \in DeviceDataBlocks :
        RawRead("get_data_raw", BMP388_REG_PRESSURE_DATA,
                BMP388_LEN_PRESSURE_DATA + BMP388_LEN_TEMPERATURE_DATA, block)
    /\ UNCHANGED main

BMP388_get_pressure_raw ==
    /\ handle.drv = "BMP388"
    /\ \E block \in DeviceDataBlocks :
        RawRead("get_pressure_raw", BMP388_REG_PRESSURE_DATA, BMP388_LEN_PRESSURE_DATA,
                SubSeq(block, 1, 3))
    /\ UNCHANGED main

BMP388_get_temperature_raw ==
    /\ handle.drv = "BMP388"
    /\ \E block \in DeviceDataBlocks :
        RawRead("get_temperature_raw", BMP388_REG_TEMPERATURE_DATA,
                BMP388_LEN_TEMPERATURE_DATA, SubSeq(block, 4, 6))
    /\ UNCHANGED main

(***************************************************************************)
(* BME280 raw read.                                                         *)
(***************************************************************************)
BME280_LEN_P_T_H_DATA == 8
BME280_REG_DATA == 247                    \* 0xf7
BME280_12_BIT_SHIFT == 12
BME280_8_BIT_SHIFT == 8
BME280_4_BIT_SHIFT == 4

\* (x as u32) << n for a byte x
Shl(x, n) == x * (2 ^ n)

\* contents of the data registers 0xf7..0xfe of the chip: pressure,
\* temperature (MSB, LSB, XLSB each), humidity (MSB, LSB)
Bme280DataBlocks ==
    {<<231, 134, 3, 128, 0, 7, 110, 20>>, <<231, 134, 12, 128, 0, 9, 110, 20>>,
     <<226, 164, 0, 96, 0, 0, 110, 20>>, <<253, 126, 16, 128, 0, 0, 110, 20>>,
     <<231, 134, 0, 224, 0, 0, 110, 20>>}

\* the three fields get_sensor_data stores; reg_data is the Rust array
UncompData(reg_data) ==
    [pressure |-> BitOr(BitOr(Shl(reg_data[1], BME280_12_BIT_SHIFT),
                              Shl(reg_data[2], BME280_4_BIT_SHIFT)),
                        Shr(reg_data[3], BME280_4_BIT_SHIFT)),
     temperature |-> BitOr(BitOr(Shl(reg_data[4], BME280_12_BIT_SHIFT),
                                 Shl(reg_data[5], BME280_4_BIT_SHIFT)),
                           Shr(reg_data[6], BME280_4_BIT_SHIFT)),
     humidity |-> BitOr(Shl(reg_data[7], BME280_8_BIT_SHIFT), reg_data[8])]

BME280_get_sensor_data ==
    /\ handle.drv = "BME280"
    /\ pc = "idle"
    /\ op' = [name |-> "get_sensor_data", drv |-> "BME280", args |-> <<>>]
    /\ \E ok \in BOOLEAN, n \in Delivered(BME280_LEN_P_T_H_DATA),
          block \in Bme280DataBlocks :
        LET reg_data == FillBuffer(block, BME280_LEN_P_T_H_DATA, n) IN
        /\ calls' = <<Call("read_block", BME280_REG_DATA, BME280_LEN_P_T_H_DATA,
                            IF ok THEN n ELSE -1, ok)>>
        /\ loc' = IF ok THEN [NoLoc EXCEPT !.bytes_read = n, !.read_buf = reg_data]
                  ELSE NoLoc
        /\ handle' = IF ok THEN [handle EXCEPT !.uncomp_data = UncompData(reg_data)]
                     ELSE handle
        /\ result' = IF ok THEN Ok(<<>>) ELSE Err("TransportFailure")
    /\ pc' = "done"
    /\ UNCHANGED <<dev, main>>

(***************************************************************************)
(* BMP388 compensation. The f64 values are held as integers: the           *)
(* calibrations and samples drawn keep every f64 operation exact.           *)
(***************************************************************************)
\* scaled coefficients of the handles the data path is checked with
Bmp388Calibrations ==
    {[par_t1 |-> 0, par_t2 |-> 1, par_t3 |-> 0,
      par_p1 |-> 3, par_p2 |-> 0, par_p3 |-> 0, par_p4 |-> 0, par_p5 |-> 0, par_p6 |-> 0,
      par_p7 |-> 0, par_p8 |-> 0, par_p9 |-> 0, par_p10 |-> 0, par_p11 |-> 0],
     [par_t1 |-> 1, par_t2 |-> 2, par_t3 |-> 1,
      par_p1 |-> 2, par_p2 |-> 1, par_p3 |-> 0, par_p4 |-> -1, par_p5 |-> 4, par_p6 |-> 1,
      par_p7 |-> 0, par_p8 |-> 1, par_p9 |-> 1, par_p10 |-> -1, par_p11 |-> 1],
     [par_t1 |-> 1, par_t2 |-> 3, par_t3 |-> 1,
      par_p1 |-> 2, par_p2 |-> 1, par_p3 |-> 0, par_p4 |-> -1, par_p5 |-> 4, par_p6 |-> 1,
      par_p7 |-> 0, par_p8 |-> 1, par_p9 |-> 1, par_p10 |-> -1, par_p11 |-> 1]}

\* raw samples and temperatures passed to the compensation functions
RawSamples == {0, 1, 2, 5}

TemperatureInputs == {-3, 0, 2, 7}

get_temperature(calib_data, temperature_raw) ==
    LET partial_data1 == temperature_raw - calib_data.par_t1
        partial_data2 == partial_data1 * calib_data.par_t2
    IN  partial_data2 + ((partial_data1 * partial_data1) * calib_data.par_t3)

\* get_pressure with the roles of par_p1 and par_p5 exchanged
get_pressure_p1_as_offset(calib_data, pressure_raw, temperature) ==
    LET temperature_pow_2 == temperature * temperature
        temperature_pow_3 == temperature * temperature * temperature
        partial_out1 == calib_data.par_p1 + calib_data.par_p6 * temperature
                        + calib_data.par_p7 * temperature_pow_2
                        + calib_data.par_p8 * temperature_pow_3
        partial_out2 == pressure_raw * (calib_data.par_p5 + calib_data.par_p2 * temperature
                                        + calib_data.par_p3 * temperature_pow_2
                                        + calib_data.par_p4 * temperature_pow_3)
        partial_data4 == (pressure_raw * pressure_raw)
                            * (calib_data.par_p9 + calib_data.par_p10 * temperature)
                         + (pressure_raw * pressure_raw * pressure_raw) * calib_data.par_p11
    IN  partial_out1 + partial_out2 + partial_data4

get_pressure(calib_data, pressure_raw, temperature) ==
    LET temperature_pow_2 == temperature * temperature
        temperature_pow_3 == temperature * temperature * temperature
        partial_out1 ==
            LET partial_data1 == calib_data.par_p6 * temperature
                partial_data2 == calib_data.par_p7 * temperature_pow_2
                partial_data3 == calib_data.par_p8 * temperature_pow_3
            IN  calib_data.par_p5 + partial_data1 + partial_data2 + partial_data3
        partial_out2 ==
            LET partial_data1 == calib_data.par_p2 * temperature
                partial_data2 == calib_data.par_p3 * temperature_pow_2
                partial_data3 == calib_data.par_p4 * temperature_pow_3
            IN  pressure_raw * (calib_data.par_p1 + partial_data1 + partial_data2
                                + partial_data3)
        partial_data4 ==
            LET partial_data1 == pressure_raw * pressure_raw
                partial_data2 == calib_data.par_p9 + calib_data.par_p10 * temperature
                partial_data3 == partial_data1 * partial_data2
            IN  partial_data3
                + (pressure_raw * pressure_raw * pressure_raw) * calib_data.par_p11
    IN  partial_out1 + partial_out2 + partial_data4

get_pressure_and_temperature(calib_data, data_raw) ==
    LET temperature == get_temperature(calib_data, data_raw.temperature)
        pressure == get_pressure(calib_data, data_raw.pressure, temperature)
    IN  [pressure |-> pressure, temperature |-> temperature]

\* a method taking &self that calls nothing: it returns value
PureMethod(drv, name, args, value) ==
    /\ handle.drv = drv
    /\ pc = "idle"
    /\ op' = [name |-> name, drv |-> drv, args |-> args]
    /\ calls' = <<>>
    /\ loc' = NoLoc
    /\ result' = Ok(value)
    /\ pc' = "done"
    /\ UNCHANGED <<handle, dev, main>>

BMP388_get_temperature ==
    /\ handle.drv = "BMP388"
    /\ \E temperature_raw \in RawSamples :
        PureMethod("BMP388", "get_temperature", [temperature_raw |-> temperature_raw],
                   get_temperature(handle.calib_data, temperature_raw))

BMP388_get_pressure ==
    /\ handle.drv = "BMP388"
    /\ \E pressure_raw \in RawSamples, temperature \in TemperatureInputs :
        PureMethod("BMP388", "get_pressure",
                   [pressure_raw |-> pressure_raw, temperature |-> temperature],
                   get_pressure(handle.calib_data, pressure_raw, temperature))

BMP388_get_pressure_and_temperature ==
    /\ handle.drv = "BMP388"
    /\ \E pressure_raw \in RawSamples, temperature_raw \in RawSamples :
        LET data_raw == [pressure |-> pressure_raw, temperature |-> temperature_raw] IN
        PureMethod("BMP388", "get_pressure_and_temperature", [data_raw |-> data_raw],
                   get_pressure_and_temperature(handle.calib_data, data_raw))

(***************************************************************************)
(* BME280 compensation. Temperatures are held in hundredths of a degree,    *)
(* pressures in Pa; the calibrations and samples drawn keep every f64       *)
(* operation exact, so `/` is the exact quotient.                           *)
(***************************************************************************)
BME280_TEMPERATURE_MIN == -4000           \* -40.0
BME280_TEMPERATURE_MAX == 8500            \* 85.0
BME280_PRESSURE_MIN == 30000
BME280_PRESSURE_MAX == 110000

Bme280Calibrations ==
    {[dig_t1 |-> 24576, dig_t2 |-> t2, dig_t3 |-> 0,
      dig_p1 |-> p1, dig_p2 |-> 0, dig_p3 |-> 0, dig_p4 |-> 16, dig_p5 |-> 64,
      dig_p6 |-> 0, dig_p7 |-> 160, dig_p8 |-> 0, dig_p9 |-> 0,
      t_fine_float |-> 0, t_fine_fixed |-> 0] : t2 \in {16000, 8000}, p1 \in {6250, 0}}

\* the value compensate_temperature_float stores in calib_data.t_fine_float
t_fine_float(calib_data, uncomp_data) ==
    LET var1a == (uncomp_data.temperature \div 16384) - (calib_data.dig_t1 \div 1024)
        var1 == var1a * calib_data.dig_t2
        var2a == (uncomp_data.temperature \div 131072) - (calib_data.dig_t1 \div 8192)
        var2 == (var2a * var2a) * calib_data.dig_t3
    IN  var1 + var2

\* Clamp that lets every value through
ClampNothing(x, min, max) == x

Clamp(x, min, max) == IF x < min THEN min ELSE IF x > max THEN max ELSE x

compensate_temperature_float(calib_data, uncomp_data) ==
    LET temperature == (t_fine_float(calib_data, uncomp_data) * 100) \div 5120
    IN  Clamp(temperature, BME280_TEMPERATURE_MIN, BME280_TEMPERATURE_MAX)

Abs(x) == IF x < 0 THEN -x ELSE x

\* the product a * b of two i32 values is an i32 value
MulFitsI32(a, b) ==
    \/ a = 0 \/ b = 0
    \/ Abs(a) <= 2147483647 \div Abs(b)
    \/ /\ (a < 0) # (b < 0)                 \* the product is -2^31
       /\ Abs(a) = (2147483647 \div Abs(b)) + 1
       /\ 2147483647 % Abs(b) = Abs(b) - 1

\* a * b in i32 without overflow checks: the low 32 bits of the product, from
\* the 16-bit halves of a and the bytes of b
MulWrapI32(a, b) ==
    LET a0 == a % 65536
        a1 == (a \div 65536) % 65536
        b0 == b % 256
        b1 == (b \div 256) % 256
        b2 == (b \div 65536) % 256
        b3 == (b \div 16777216) % 256
        lo_sum == ((a0 * b0) % 65536) + (((a0 * b1) % 256) * 256)
        hi_sum == (lo_sum \div 65536) + ((a0 * b0) \div 65536) + ((a0 * b1) \div 256)
                  + ((a0 * b2) % 65536) + (((a0 * b3) % 256) * 256)
                  + ((a1 * b0) % 65536) + (((a1 * b1) % 256) * 256)
        lo == lo_sum % 65536
        hi == hi_sum % 65536
    IN  IF hi >= 32768 THEN (hi - 65536) * 65536 + lo ELSE hi * 65536 + lo

\* the three products of compensate_temperature_fixed, each of them as a
\* build without overflow checks computes it
fixed_products(calib_data, uncomp_data) ==
    LET var1a == Shr(uncomp_data.temperature, 3) - Shl(calib_data.dig_t1, 1)
        var2a == Shr(uncomp_data.temperature, 4) - calib_data.dig_t1
        square == MulWrapI32(var2a, var2a)
    IN  [var1a |-> var1a, var2a |-> var2a,
         var1 |-> MulWrapI32(var1a, calib_data.dig_t2),
         square |-> square,
         var2 |-> MulWrapI32(square \div 4096, calib_data.dig_t3)]

\* one of the products of compensate_temperature_fixed leaves the i32 range
FixedOverflows(calib_data, uncomp_data) ==
    LET p == fixed_products(calib_data, uncomp_data) IN
    \/ ~MulFitsI32(p.var1a, calib_data.dig_t2)
    \/ ~MulFitsI32(p.var2a, p.var2a)
    \/ ~MulFitsI32(p.square \div 4096, calib_data.dig_t3)

\* the value compensate_temperature_fixed stores in calib_data.t_fine_fixed
t_fine_fixed(calib_data, uncomp_data) ==
    LET p == fixed_products(calib_data, uncomp_data)
        var1 == p.var1 \div 2048
        var2 == p.var2 \div 16384
    IN  var1 + var2

compensate_temperature_fixed(calib_data, uncomp_data) ==
    LET temperature == (t_fine_fixed(calib_data, uncomp_data) * 5 + 128) \div 256
    IN  Clamp(temperature, BME280_TEMPERATURE_MIN, BME280_TEMPERATURE_MAX)

\* x * x / 32768.0 for x a multiple of 256
Square15(x) == (x \div 256) * (x \div 128)

\* var1 of compensate_pressure_float at its test against 0.0
pressure_var1(calib_data) ==
    LET var1 == (calib_data.t_fine_float \div 2) - 64000
        var3 == (calib_data.dig_p3 * var1 * var1) \div 524288
        var1b == (var3 + calib_data.dig_p2 * var1) \div 524288
    IN  (1 + var1b \div 32768) * calib_data.dig_p1

\* pressure of compensate_pressure_float before its comparison with the
\* limits; var1 is not 0
pressure_polynomial(calib_data, uncomp_data) ==
    LET var1 == (calib_data.t_fine_float \div 2) - 64000
        var2a == Square15(var1) * calib_data.dig_p6
        var2b == var2a + var1 * calib_data.dig_p5 * 2
        var2 == (var2b \div 4) + calib_data.dig_p4 * 65536
        pressure_a == 1048576 - uncomp_data.pressure
        pressure_b == ((pressure_a - (var2 \div 4096)) * 6250) \div pressure_var1(calib_data)
        var1d == ((calib_data.dig_p9 * pressure_b * pressure_b) \div 65536) \div 32768
        var2d == (pressure_b * calib_data.dig_p8) \div 32768
    IN  pressure_b + (var1d + var2d + calib_data.dig_p7) \div 16

compensate_pressure_float(calib_data, uncomp_data) ==
    IF pressure_var1(calib_data) = 0
    THEN BME280_PRESSURE_MIN              \* avoid exception caused by division by zero
    ELSE Clamp(pressure_polynomial(calib_data, uncomp_data),
               BME280_PRESSURE_MIN, BME280_PRESSURE_MAX)

BME280_compensate_temperature_float ==
    /\ handle.drv = "BME280"
    /\ pc = "idle"
    /\ op' = [name |-> "compensate_temperature_float", drv |-> "BME280", args |-> <<>>]
    /\ calls' = <<>>
    /\ loc' = NoLoc
    /\ handle' = [handle EXCEPT !.calib_data.t_fine_float =
                        t_fine_float(handle.calib_data, handle.uncomp_data)]
    /\ result' = Ok(compensate_temperature_float(handle.calib_data, handle.uncomp_data))
    /\ pc' = "done"
    /\ UNCHANGED <<dev, main>>

BME280_compensate_temperature_fixed ==
    /\ handle.drv = "BME280"
    /\ pc = "idle"
    /\ op' = [name |-> "compensate_temperature_fixed", drv |-> "BME280", args |-> <<>>]
    /\ calls' = <<>>
    /\ loc' = NoLoc
    /\ \E build \in Builds :
        LET overflow == FixedOverflows(handle.calib_data, handle.uncomp_data) IN
        /\ overflow \/ build = "release"     \* without overflow the builds agree
        /\ IF overflow /\ build = "debug"
           THEN pc' = "panicked" /\ UNCHANGED <<handle, result>>
           ELSE /\ handle' = [handle EXCEPT !.calib_data.t_fine_fixed =
                                   t_fine_fixed(handle.calib_data, handle.uncomp_data)]
                /\ result' = Ok(compensate_temperature_fixed(handle.calib_data,
                                                             handle.uncomp_data))
                /\ pc' = "done"
    /\ UNCHANGED <<dev, main>>

BME280_compensate_pressure_float ==
    /\ handle.drv = "BME280"
    /\ PureMethod("BME280", "compensate_pressure_float", <<>>,
                  compensate_pressure_float(handle.calib_data, handle.uncomp_data))

(***************************************************************************)
(* The caller: the acquisition loop of the example program, after bring-up, *)
(* in one of its three acquisition modes.                                   *)
(***************************************************************************)
\* frame reads of one drain of the queue the model follows
MaxFrames == 3

AcquisitionModes == {"Forced", "Normal", "Fifo"}

\* the polling call of the inner loop: match args.mode { .. }
PollCall(mode) ==
    CASE mode = "Forced" -> "get_sensor_mode"
      [] mode = "Normal" -> "get_status"
      [] mode = "Fifo" -> "is_data_ready"

\* top of the outer loop: in forced mode the mode is set for every sample
LoopStart(m) ==
    IF m.mode = "Forced"
    THEN [m EXCEPT !.pc = "set_sensor_mode", !.args = <<"Forced", "Enabled", "Enabled">>]
    ELSE [m EXCEPT !.pc = PollCall(m.mode), !.args = <<>>]

\* return ExitCode::from(..)
Exit(m) == [m EXCEPT !.pc = "exit", !.args = <<>>]

\* the polling loop as a caller that does not look at the read-back would
\* have it: it is left after the first one
PollingEndsAtOnce(power_mode) == power_mode \in {"Sleep", "Forced", "Normal"}

\* if power_mode == BMP388SensorPowerMode::Sleep { break; }
PollingEnds(power_mode) == power_mode = "Sleep"

\* if fifo_length == 0 { break; }: the test as a loop that stops on a queue
\* shorter than a frame would have it
DrainStopsBelowFrame(fifo_length) == fifo_length < 7

\* if fifo_length == 0 { break; }
DrainStops(fifo_length) == fifo_length = 0

\* the caller takes the result of the call it made and goes on as m
Returned(name, m) ==
    /\ main.pc = name
    /\ pc = "done"
    /\ pc' = "idle"
    /\ op' = NoOp
    /\ calls' = <<>>
    /\ loc' = NoLoc
    /\ result' = NoResult
    /\ main' = m
    /\ UNCHANGED <<handle, dev>>

Main_set_sensor_mode_returned ==
    /\ main.pc = "set_sensor_mode"
    /\ Returned("set_sensor_mode",
                IF result.ok
                THEN [main EXCEPT !.pc = "get_sensor_mode", !.args = <<>>,
                                  !.read_back = "none"]
                ELSE Exit(main))

Main_get_sensor_mode_returned ==
    /\ main.pc = "get_sensor_mode"
    /\ Returned("get_sensor_mode",
                IF ~result.ok THEN Exit(main)
                ELSE IF PollingEnds(result.val.sensor_mode)
                THEN [main EXCEPT !.pc = "get_data_raw",
                                  !.read_back = result.val.sensor_mode]
                ELSE [main EXCEPT !.read_back = result.val.sensor_mode])

Main_get_status_returned ==
    /\ main.pc = "get_status"
    /\ Returned("get_status",
                IF ~result.ok THEN Exit(main)
                ELSE IF result.val.pressure_data_ready /\ result.val.temperature_data_ready
                THEN [main EXCEPT !.pc = "get_data_raw"]
                ELSE main)

Main_is_data_ready_returned ==
    /\ main.pc = "is_data_ready"
    /\ Returned("is_data_ready",
                IF ~result.ok THEN Exit(main)
                ELSE IF result.val
                THEN [main EXCEPT !.pc = "read_next_fifo_data_frame", !.frame_reads = 0,
                                  !.lengths_read = 0, !.zero_lengths = 0]
                ELSE main)

Main_read_next_fifo_data_frame_returned ==
    /\ main.pc = "read_next_fifo_data_frame"
    /\ Returned("read_next_fifo_data_frame",
                IF result.ok
                THEN [main EXCEPT !.pc = "get_fifo_length", !.frame_reads = @ + 1]
                ELSE [Exit(main) EXCEPT !.frame_reads = @ + 1])

Main_get_fifo_length_returned ==
    /\ main.pc = "get_fifo_length"
    /\ result.ok => (DrainStops(result.val) \/ main.frame_reads < MaxFrames)
    /\ Returned("get_fifo_length",
                IF ~result.ok THEN Exit(main)
                ELSE IF DrainStops(result.val)
                THEN [main EXCEPT !.pc = "delay", !.lengths_read = @ + 1,
                                  !.zero_lengths = @ + (IF result.val = 0 THEN 1 ELSE 0)]
                ELSE [main EXCEPT !.pc = "read_next_fifo_data_frame",
                                  !.lengths_read = @ + 1,
                                  !.zero_lengths = @ + (IF result.val = 0 THEN 1 ELSE 0)])

Main_get_data_raw_returned ==
    /\ main.pc = "get_data_raw"
    /\ Returned("get_data_raw",
                IF result.ok THEN [main EXCEPT !.pc = "delay"] ELSE Exit(main))

\* thread::sleep(data_acquisition_delay); and the next turn of the outer loop
Main_next_acquisition ==
    /\ main.pc = "delay"
    /\ pc = "idle"
    /\ main' = LoopStart(main)
    /\ UNCHANGED <<pc, op, handle, dev, calls, loc, result>>

(***************************************************************************)
(* The specification.                                                       *)
(***************************************************************************)
\* before bring-up the chip is in an unknown state
Init ==
    /\ pc = "idle"
    /\ op = NoOp
    /\ handle = NoHandle
    /\ calls = <<>>
    /\ loc = NoLoc
    /\ result = NoResult
    /\ dev \in [id : IdBytes, pwr_ctrl : {51}, osr : {45}, osr_por : {0, 2}, ctrl_meas : {0},
               trim : {DeviceTrimmingBlock}, fifo : {-1}]
    /\ main = NoMain

Next ==
    \/ BMP388_new
    \/ BMP388_new_chip_id
    \/ BMP388_soft_reset
    \/ BMP388_get_calib_data
    \/ BMP388_new_set_osr_pressure_temperature
    \/ BMP388_new_set_irr_filter
    \/ BMP388_new_set_output_data_rate
    \/ BMP388_set_output_data_rate
    \/ BMP388_set_irr_filter
    \/ BMP388_set_osr_pressure_temperature
    \/ BMP388_set_sensor_mode
    \/ BMP388_get_sensor_mode
    \/ BMP388_get_status
    \/ BMP388_is_data_ready
    \/ BMP388_enable_fifo
    \/ BMP388_enable_fifo_config_2
    \/ BMP388_enable_fifo_config_1
    \/ BMP388_disable_fifo
    \/ BMP388_flush_fifo
    \/ BMP388_get_fifo_length
    \/ BMP388_get_fifo_watermark
    \/ BMP388_get_fifo_data
    \/ BMP388_read_next_fifo_data_frame
    \/ BMP388_fifo_config_error
    \/ BMP388_fifo_config_change
    \/ BMP388_fifo_read_length
    \/ BMP388_fifo_empty_frame
    \/ BMP388_read_fifo_frame_temperature
    \/ BMP388_read_fifo_frame_temperature_with_time
    \/ BMP388_read_fifo_frame_pressure
    \/ BMP388_read_fifo_frame_pressure_with_time
    \/ BMP388_read_fifo_frame_pressure_temperature
    \/ BMP388_read_fifo_frame_pressure_temperature_with_time
    \/ BMP388_get_data_raw
    \/ BMP388_get_pressure_raw
    \/ BMP388_get_temperature_raw
    \/ Chip_conversion_done
    \/ Return
    \/ BME280_new
    \/ BME280_new_chip_id
    \/ BME280_soft_reset
    \/ BME280_get_calib_data_1
    \/ BME280_get_calib_data_2
    \/ BME680_new
    \/ BME680_new_chip_id
    \/ BME680_get_calib_data_1
    \/ BME680_get_calib_data_2
    \/ BME680_get_calib_data_3
    \/ BME680_soft_reset
    \/ BME680_set_humidity_osr
    \/ BME680_set_pressure_and_temperature_osr
    \/ BME680_set_irr_filter

Spec == Init /\ [][Next]_vars

(***************************************************************************)
(* The example program from the top of its acquisition loop.                *)
(***************************************************************************)
\* after bring-up: the handle is built, and in normal and FIFO mode the chip
\* has been set to Normal and, in FIFO mode, the queue enabled with sensor time
MainInit ==
    /\ pc = "idle"
    /\ op = NoOp
    /\ calls = <<>>
    /\ loc = NoLoc
    /\ result = NoResult
    /\ \E mode \in AcquisitionModes :
        /\ main = LoopStart([NoMain EXCEPT !.mode = mode])
        /\ handle = [drv |-> "BMP388", calib_filled |-> <<BMP388_LEN_TRIMMING_COEFFICIENTS>>,
                     calib_data |-> DecodeCalib(DeviceTrimmingBlock),
                     with_sensor_time |-> IF mode = "Fifo" THEN "Enabled" ELSE "Disabled"]
        /\ dev = [id |-> BMP388_CHIP_ID,
                  pwr_ctrl |-> IF mode = "Forced"
                               THEN PowerControlRegVal("Sleep", "Disabled", "Disabled")
                               ELSE PowerControlRegVal("Normal", "Enabled", "Enabled"),
                  osr |-> OsrRegVal("UltraLowX1", "X1"), osr_por |-> 2,
                  trim |-> DeviceTrimmingBlock, fifo |-> -1]

\* the steps of the program, driver and caller
MainProgram ==
    \/ BMP388_set_sensor_mode
    \/ BMP388_get_sensor_mode
    \/ BMP388_get_status
    \/ BMP388_is_data_ready
    \/ BMP388_read_next_fifo_data_frame
    \/ BMP388_fifo_config_error
    \/ BMP388_fifo_config_change
    \/ BMP388_fifo_empty_frame
    \/ BMP388_fifo_read_length
    \/ BMP388_read_fifo_frame_temperature
    \/ BMP388_read_fifo_frame_temperature_with_time
    \/ BMP388_read_fifo_frame_pressure
    \/ BMP388_read_fifo_frame_pressure_with_time
    \/ BMP388_read_fifo_frame_pressure_temperature
    \/ BMP388_read_fifo_frame_pressure_temperature_with_time
    \/ BMP388_get_fifo_length
    \/ BMP388_get_data_raw
    \/ Main_set_sensor_mode_returned
    \/ Main_get_sensor_mode_returned
    \/ Main_get_status_returned
    \/ Main_is_data_ready_returned
    \/ Main_read_next_fifo_data_frame_returned
    \/ Main_get_fifo_length_returned
    \/ Main_get_data_raw_returned
    \/ Main_next_acquisition

MainNext ==
    \/ MainProgram
    \/ Chip_conversion_done

MainSpec == MainInit /\ [][MainNext]_vars

\* the process is scheduled as long as it has a step to take (its sleeps
\* end), and the chip finishes the conversion it has started
FairMainSpec ==
    /\ MainSpec
    /\ WF_vars(MainProgram)
    /\ WF_vars(Chip_conversion_done)

(***************************************************************************)
(* The data path of a handle that bring-up has built: raw reads and         *)
(* compensation, for the calibrations drawn.                                *)
(***************************************************************************)
DataHandles ==
    {[drv |-> "BMP388", calib_filled |-> <<BMP388_LEN_TRIMMING_COEFFICIENTS>>,
      calib_data |-> c, with_sensor_time |-> "Disabled"] : c \in Bmp388Calibrations}
    \cup
    {[drv |-> "BME280",
      calib_filled |-> <<BME280_LEN_TEMP_PRESS_CALIB_DATA, BME280_LEN_HUMIDITY_CALIB_DATA>>,
      calib_data |-> c, uncomp_data |-> UncompData(b), with_sensor_time |-> "Disabled"] :
        c \in Bme280Calibrations, b \in Bme280DataBlocks}

DataInit ==
    /\ pc = "idle"
    /\ op = NoOp
    /\ calls = <<>>
    /\ loc = NoLoc
    /\ result = NoResult
    /\ main = NoMain
    /\ handle \in DataHandles
    /\ dev = [id |-> ExpectedChipId(handle.drv), pwr_ctrl |-> 0, osr |-> 0, osr_por |-> 0, ctrl_meas |-> 0,
            trim |-> DeviceTrimmingBlock, fifo |-> -1]

DataNext ==
    \/ BMP388_get_data_raw
    \/ BMP388_get_pressure_raw
    \/ BMP388_get_temperature_raw
    \/ BMP388_get_temperature
    \/ BMP388_get_pressure
    \/ BMP388_get_pressure_and_temperature
    \/ BME280_get_sensor_data
    \/ BME280_compensate_temperature_float
    \/ BME280_compensate_temperature_fixed
    \/ BME280_compensate_pressure_float
    \/ Return

DataSpec == DataInit /\ [][DataNext]_vars

(***************************************************************************)
(* BME280: the ctrl_meas register holds the power mode (bits 0-1) and the   *)
(* oversampling of pressure (bits 2-4) and temperature (bits 5-7).  The     *)
(* driver changes one of them by reading the register and writing it back;  *)
(* the chip clears the mode bits by itself when a forced measurement ends.  *)
(***************************************************************************)
Bme280OverSampling_value(e) ==
    CASE e = "NoOversampling" -> 0 [] e = "Oversampling1x" -> 1
      [] e = "Oversampling2x" -> 2 [] e = "Oversampling4x" -> 3
      [] e = "Oversampling8x" -> 4 [] e = "Oversampling16x" -> 5
      [] e = "OversamplingMax" -> 6

Bme280SensorMode_value(e) ==
    CASE e = "Bme280PowerModeSleep" -> 0
      [] e = "Bme280PowerModeForced" -> 1
      [] e = "Bme280PowerModeNormal" -> 3

Bme280OverSamplings == {"NoOversampling", "Oversampling1x", "Oversampling16x"}

Bme280SensorModes ==
    {"Bme280PowerModeSleep", "Bme280PowerModeForced", "Bme280PowerModeNormal"}

\* (ctrl_meas & BME280_CTRL_MODE_MSK) | (osr_p.value() << 2) | (osr_t.value() << 5)
OsrCtrlMeas(ctrl_meas, osr_p, osr_t) ==
    BitOr(BitOr(BitAnd(ctrl_meas, BME280_CTRL_MODE_MSK),
                Shl8(Bme280OverSampling_value(osr_p), BME280_CTRL_PRESS_POS)),
          Shl8(Bme280OverSampling_value(osr_t), BME280_CTRL_TEMP_POS))

\* (ctrl_meas & (BME280_CTRL_PRESS_MSK | BME280_CTRL_TEMP_MSK)) | sensor_mode.value()
ModeCtrlMeas(ctrl_meas, sensor_mode) ==
    BitOr(BitAnd(ctrl_meas, BitOr(BME280_CTRL_PRESS_MSK, BME280_CTRL_TEMP_MSK)),
          Bme280SensorMode_value(sensor_mode))

\* let ctrl_meas = i2cio::read_byte(&mut self.i2c, BME280_REG_CTRL_MEAS)?;
ReadCtrlMeas(next) ==
    \E ok \in BOOLEAN :
        /\ calls' = Append(calls, Call("read_byte", BME280_REG_CTRL_MEAS, 1,
                                       IF ok THEN dev.ctrl_meas ELSE -1, ok))
        /\ loc' = IF ok THEN [NoLoc EXCEPT !.ctrl_meas = dev.ctrl_meas] ELSE NoLoc
        /\ pc' = IF ok THEN next ELSE "done"
        /\ result' = IF ok THEN NoResult ELSE Err("TransportFailure")
        /\ UNCHANGED <<handle, dev>>

\* i2cio::write_byte(&mut self.i2c, BME280_REG_CTRL_MEAS, ctrl_meas) as the
\* value of the method
WriteCtrlMeas(val) ==
    \E ok \in BOOLEAN :
        /\ calls' = Append(calls, Call("write_byte", BME280_REG_CTRL_MEAS, 1, val, ok))
        /\ dev' = IF ok THEN DevWrite(dev, op.drv, BME280_REG_CTRL_MEAS, val) ELSE dev
        /\ result' = IF ok THEN Ok(<<>>) ELSE Err("TransportFailure")
        /\ pc' = "done"
        /\ UNCHANGED <<op, handle, loc>>

BME280_set_osr_humidity ==
    /\ handle.drv = "BME280"
    /\ pc = "idle"
    /\ \E osr_h \in Bme280OverSamplings, ok \in BOOLEAN :
        /\ op' = [name |-> "set_osr_humidity", drv |-> "BME280", args |-> [osr_h |-> osr_h]]
        /\ calls' = <<Call("write_byte", BME280_REG_CTRL_HUM, 1,
                           Bme280OverSampling_value(osr_h), ok)>>
        /\ pc' = IF ok THEN "ctrl_hum_read_ctrl_meas" ELSE "done"
        /\ result' = IF ok THEN NoResult ELSE Err("TransportFailure")
    /\ loc' = NoLoc
    /\ UNCHANGED <<handle, dev>>
    /\ UNCHANGED main

BME280_set_osr_humidity_read_ctrl_meas ==
    /\ pc = "ctrl_hum_read_ctrl_meas"
    /\ ReadCtrlMeas("ctrl_hum_write_ctrl_meas")
    /\ UNCHANGED op
    /\ UNCHANGED main

BME280_set_osr_humidity_write_ctrl_meas ==
    /\ pc = "ctrl_hum_write_ctrl_meas"
    /\ WriteCtrlMeas(loc.ctrl_meas)
    /\ UNCHANGED main

BME280_set_osr_pressure_temperature ==
    /\ handle.drv = "BME280"
    /\ pc = "idle"
    /\ \E osr_p \in Bme280OverSamplings, osr_t \in Bme280OverSamplings :
        op' = [name |-> "set_osr_pressure_temperature", drv |-> "BME280",
               args |-> [osr_p |-> osr_p, osr_t |-> osr_t]]
    /\ ReadCtrlMeas("osr_write_ctrl_meas")
    /\ UNCHANGED main

BME280_set_osr_pressure_temperature_write ==
    /\ pc = "osr_write_ctrl_meas"
    /\ WriteCtrlMeas(OsrCtrlMeas(loc.ctrl_meas, op.args.osr_p, op.args.osr_t))
    /\ UNCHANGED main

BME280_set_sensor_mode ==
    /\ handle.drv = "BME280"
    /\ pc = "idle"
    /\ \E sensor_mode \in Bme280SensorModes :
        op' = [name |-> "set_sensor_mode", drv |-> "BME280",
               args |-> [sensor_mode |-> sensor_mode]]
    /\ ReadCtrlMeas("mode_write_ctrl_meas")
    /\ UNCHANGED main

BME280_set_sensor_mode_write ==
    /\ pc = "mode_write_ctrl_meas"
    /\ WriteCtrlMeas(ModeCtrlMeas(loc.ctrl_meas, op.args.sensor_mode))
    /\ UNCHANGED main

\* the chip ends a forced measurement and returns to Sleep by itself
Chip_forced_measurement_done ==
    /\ BitAnd(dev.ctrl_meas, BME280_CTRL_MODE_MSK) \in 1..2
    /\ dev' = [dev EXCEPT !.ctrl_meas = BitAnd(dev.ctrl_meas,
                                  BitOr(BME280_CTRL_PRESS_MSK, BME280_CTRL_TEMP_MSK))]
    /\ UNCHANGED <<pc, op, handle, calls, loc, result>>
    /\ UNCHANGED main

CtrlMeasInit ==
    /\ pc = "idle"
    /\ op = NoOp
    /\ calls = <<>>
    /\ loc = NoLoc
    /\ result = NoResult
    /\ main = NoMain
    /\ handle \in {h \in DataHandles : h.drv = "BME280"}
    /\ dev = [id |-> BME280_CHIP_ID, pwr_ctrl |-> 0, osr |-> 0, osr_por |-> 0,
              ctrl_meas |-> 0, trim |-> DeviceTrimmingBlock, fifo |-> -1]

CtrlMeasNext ==
    \/ BME280_set_osr_humidity
    \/ BME280_set_osr_humidity_read_ctrl_meas
    \/ BME280_set_osr_humidity_write_ctrl_meas
    \/ BME280_set_osr_pressure_temperature
    \/ BME280_set_osr_pressure_temperature_write
    \/ BME280_set_sensor_mode
    \/ BME280_set_sensor_mode_write
    \/ Chip_forced_measurement_done
    \/ Return

CtrlMeasSpec == CtrlMeasInit /\ [][CtrlMeasNext]_vars

(***************************************************************************)
(* Fixed-point temperature compensation over the corners of its inputs: a   *)
(* 20-bit raw temperature, dig_t1 of 16 bits, dig_t2 and dig_t3 signed.     *)
(***************************************************************************)
FixedHandles ==
    {[drv |-> "BME280",
      calib_filled |-> <<BME280_LEN_TEMP_PRESS_CALIB_DATA, BME280_LEN_HUMIDITY_CALIB_DATA>>,
      calib_data |-> [dig_t1 |-> t1, dig_t2 |-> t2, dig_t3 |-> t3,
                      dig_p1 |-> 6250, dig_p2 |-> 0, dig_p3 |-> 0, dig_p4 |-> 16,
                      dig_p5 |-> 64, dig_p6 |-> 0, dig_p7 |-> 160, dig_p8 |-> 0,
                      dig_p9 |-> 0, t_fine_float |-> 0, t_fine_fixed |-> 0],
      uncomp_data |-> [pressure |-> 948320, temperature |-> t, humidity |-> 28180],
      with_sensor_time |-> "Disabled"] :
        t \in {0, 524288, 1048575}, t1 \in {0, 24576, 65535},
        t2 \in {-32768, 16000, 32767}, t3 \in {-32768, 0, 50, 32767}}

FixedInit ==
    /\ pc = "idle"
    /\ op = NoOp
    /\ calls = <<>>
    /\ loc = NoLoc
    /\ result = NoResult
    /\ main = NoMain
    /\ handle \in FixedHandles
    /\ dev = [id |-> BME280_CHIP_ID, pwr_ctrl |-> 0, osr |-> 0, osr_por |-> 0, ctrl_meas |-> 0,
              trim |-> DeviceTrimmingBlock, fifo |-> -1]

FixedNext ==
    \/ BME280_compensate_temperature_fixed
    \/ Return

FixedSpec == FixedInit /\ [][FixedNext]_vars

(***************************************************************************)
(* Bring-up of a BMP388 whose trimming block is any of a few blocks.        *)
(***************************************************************************)
\* the factory block, and blocks with the extreme values of the fields:
\* par_p1 = -32768, par_p1 = -16384 with par_p2 = -16385, every byte 0xff
TrimmingBlocks ==
    {DeviceTrimmingBlock,
     [DeviceTrimmingBlock EXCEPT ![6] = 0, ![7] = 128],
     [DeviceTrimmingBlock EXCEPT ![6] = 0, ![7] = 192, ![8] = 255, ![9] = 191],
     [DeviceTrimmingBlock EXCEPT ![6] = 0, ![7] = 192, ![8] = 0, ![9] = 192],
     [i \in 1..BMP388_LEN_TRIMMING_COEFFICIENTS |-> 255]}

CalibInit ==
    /\ pc = "idle"
    /\ op = NoOp
    /\ handle = NoHandle
    /\ calls = <<>>
    /\ loc = NoLoc
    /\ result = NoResult
    /\ main = NoMain
    /\ dev \in [id : {BMP388_CHIP_ID}, pwr_ctrl : {51}, osr : {45}, osr_por : {2}, ctrl_meas : {0},
                trim : TrimmingBlocks, fifo : {-1}]

CalibNext ==
    \/ BMP388_new
    \/ BMP388_new_chip_id
    \/ BMP388_soft_reset
    \/ BMP388_get_calib_data
    \/ BMP388_new_set_osr_pressure_temperature
    \/ BMP388_new_set_irr_filter
    \/ BMP388_new_set_output_data_rate
    \/ Return

CalibSpec == CalibInit /\ [][CalibNext]_vars

(***************************************************************************)
(* Frame reads from a chip in Normal mode that fills its queue meanwhile.   *)
(***************************************************************************)
RaceInit ==
    /\ pc = "idle"
    /\ op = NoOp
    /\ calls = <<>>
    /\ loc = NoLoc
    /\ result = NoResult
    /\ main = NoMain
    /\ handle = [drv |-> "BMP388", calib_filled |-> <<BMP388_LEN_TRIMMING_COEFFICIENTS>>,
                 calib_data |-> DecodeCalib(DeviceTrimmingBlock),
                 with_sensor_time |-> "Enabled"]
    /\ dev \in [id : {BMP388_CHIP_ID},
                pwr_ctrl : {PowerControlRegVal("Normal", "Enabled", "Enabled")},
                osr : {OsrRegVal("UltraLowX1", "X1")}, osr_por : {2}, ctrl_meas : {0},
                trim : {DeviceTrimmingBlock},
                fifo : {0, BMP280_FIFO_FRAMLE_LENGTH_PRESSURE_TEMPERATURE}]

RaceNext ==
    \/ BMP388_read_next_fifo_data_frame
    \/ BMP388_fifo_read_length
    \/ BMP388_fifo_empty_frame
    \/ BMP388_read_fifo_frame_pressure_temperature
    \/ BMP388_read_fifo_frame_pressure_temperature_with_time
    \/ Chip_append_frame
    \/ Return

RaceSpec == RaceInit /\ [][RaceNext]_vars

(***************************************************************************)
(* A BMP388 whose power-control register holds any byte: the driver reads   *)
(* the register back and decodes whatever the chip answers.                 *)
(***************************************************************************)
ModeInit ==
    /\ pc = "idle"
    /\ op = NoOp
    /\ calls = <<>>
    /\ loc = NoLoc
    /\ result = NoResult
    /\ main = NoMain
    /\ handle = [drv |-> "BMP388", calib_filled |-> <<BMP388_LEN_TRIMMING_COEFFICIENTS>>,
                 calib_data |-> DecodeCalib(DeviceTrimmingBlock),
                 with_sensor_time |-> "Disabled"]
    /\ dev \in [id : {BMP388_CHIP_ID}, pwr_ctrl : 0..255,
                osr : {OsrRegVal("UltraLowX1", "X1")}, osr_por : {2}, ctrl_meas : {0},
                trim : {DeviceTrimmingBlock}, fifo : {-1}]

ModeNext ==
    \/ BMP388_get_sensor_mode
    \/ BMP388_set_sensor_mode
    \/ Return

ModeSpec == ModeInit /\ [][ModeNext]_vars

(***************************************************************************)
(* Properties of bring-up.                                                  *)
(***************************************************************************)
AllCallsOk == \A i \in 1..Len(calls) : calls[i].ok

SuccessfulNew == pc = "done" /\ op.name = "new" /\ result.ok

\* the soft-reset command written to the reset register of the driver's chip
IsResetWrite(c, drv) ==
    /\ c.kind = "write_byte"
    /\ c.reg = (CASE drv = "BMP388" -> BMP388_REG_CMD
                  [] drv = "BME280" -> BME280_REG_RESET
                  [] drv = "BME680" -> BME680_REG_RESET)
    /\ c.val = 182

\* C1: when the identity byte read during construction differs from the
\* constant the driver expects, construction has returned the
\* unexpected-chip-id error, there is no handle, and the identity read is the
\* last transport call: no register write was issued at all.
C1_WrongChipIdFailsWithoutWrite ==
    (op.name = "new" /\ loc.chip_id # -1 /\ loc.chip_id # ExpectedChipId(op.drv)) =>
        /\ pc = "done"
        /\ result = Err("UnexpectedChipId")
        /\ handle = NoHandle
        /\ calls[Len(calls)].kind = "read_byte"
        /\ calls[Len(calls)].reg = ChipIdRegister(op.drv)
        /\ \A i \in 1..Len(calls) : calls[i].kind \notin WriteKinds

C1_Witness ==
    /\ op.name = "new" /\ op.drv = "BMP388"
    /\ loc.chip_id = BME280_CHIP_ID
    /\ pc = "done"

\* C2: in every successful bring-up of every driver, each calibration block
\* read comes after the identity read, the soft-reset write and the settle
\* delay, in that order, and no calibration block is read twice.
C2_CalibrationReadAfterReset ==
    SuccessfulNew =>
        /\ \A i \in 1..Len(calls) :
            calls[i].kind = "read_block" =>
                \E c, r \in 1..Len(calls) :
                    /\ c < r /\ r + 1 < i
                    /\ calls[c].kind = "read_byte" /\ calls[c].reg = ChipIdRegister(op.drv)
                    /\ IsResetWrite(calls[r], op.drv)
                    /\ calls[r + 1].kind = "sleep"
        /\ \A i, j \in 1..Len(calls) :
            (i < j /\ calls[i].kind = "read_block" /\ calls[j].kind = "read_block")
                => calls[i].reg # calls[j].reg

\* C3 as stated: after every successful bring-up the chip is in Sleep mode
\* and its oversampling register holds the chip's default, whatever the
\* arguments of the constructor were.
C3_DefaultOversamplingAfterNew ==
    SuccessfulNew =>
        /\ Shr(dev.pwr_ctrl, 4) = POWERMODE_SLEEP
        /\ dev.osr = dev.osr_por

\* C3, amended: after a successful BMP388::new the chip is in Sleep mode and
\* its oversampling register holds osr_t << 3 | osr_p of the oversampling
\* arguments of the constructor.
C3_ArgumentOversamplingAfterNew ==
    (SuccessfulNew /\ op.drv = "BMP388") =>
        /\ Shr(dev.pwr_ctrl, 4) = POWERMODE_SLEEP
        /\ dev.osr = BMP388OverSamplingTp_value(op.args.osr_t) * 8
                     + BMP388OverSamplingPr_value(op.args.osr_p)

C3_Witness ==
    /\ SuccessfulNew /\ op.drv = "BMP388"
    /\ op.args.osr_t = "X2"
    /\ dev.osr # dev.osr_por

\* C4: a failed transport call is the last call of its operation, the
\* operation has returned and its result is that failure; and no operation
\* issues the same call (same kind, same register) twice.
C4_FailStopNoRetry ==
    /\ \A i \in 1..Len(calls) :
        ~calls[i].ok =>
            /\ i = Len(calls)
            /\ pc = "done"
            /\ result = Err("TransportFailure")
    /\ \A i, j \in 1..Len(calls) :
        i < j => ~(calls[i].kind = calls[j].kind /\ calls[i].reg = calls[j].reg)

C4_Witness ==
    /\ op.name = "enable_fifo"
    /\ Len(calls) = 3
    /\ ~calls[3].ok
    /\ pc = "done"

\* C5: a handle exists only if every calibration block read of its
\* construction delivered the whole block it asked for.
C5_PartialCalibrationBlockRejected ==
    SuccessfulNew =>
        \A i \in 1..Len(calls) :
            calls[i].kind = "read_block" => calls[i].val = calls[i].len

(***************************************************************************)
(* Properties of read_next_fifo_data_frame.                                 *)
(***************************************************************************)
\* the header byte has been read by the frame read in progress or returned
HeaderRead == op.name = "read_next_fifo_data_frame" /\ loc.header # -1

FrameReturned == HeaderRead /\ pc = "done" /\ AllCallsOk

\* what the frame read did with the header, seen from outside: a control
\* frame is followed by a discard word from the queue-data register or by the
\* unknown-control-header error, a sensor frame by a read of the queue length
TreatedAsControlFrame ==
    \/ pc \in {"discard_config_error", "discard_config_change"}
    \/ result.err = "UnknownFifoControlHeader"
    \/ Len(calls) >= 2 /\ calls[2].kind = "read_word" /\ calls[2].reg = BMP388_REG_FIFO_DATA

TreatedAsSensorFrame ==
    \/ pc = "fifo_length"
    \/ Len(calls) >= 2 /\ calls[2].kind = "read_word" /\ calls[2].reg = BMP388_REG_FIFO_LENGTH

ControlFlagsUsed ==
    \/ result.err = "FifoConfigError"
    \/ result.ok /\ result.val.config_change

SensorFlagsUsed ==
    \/ result.ok /\ (result.val.pressure_raw # None \/ result.val.temperature_raw # None)
    \/ \E i \in 1..Len(calls) : calls[i].kind = "read_block"

Classification(control_bit, sensor_bit) ==
    HeaderRead =>
        LET control == BitAnd(loc.header, control_bit) > 0
            sensor == ~control /\ BitAnd(loc.header, sensor_bit) > 0
        IN  /\ TreatedAsControlFrame <=> control
            /\ TreatedAsSensorFrame <=> sensor
            /\ ControlFlagsUsed => control
            /\ SensorFlagsUsed => sensor

\* C6 as stated: a header is treated as a control frame exactly when bit 0x80
\* is set and otherwise as a sensor frame exactly when bit 0x40 is set; the
\* error and config-change flags are used only for control frames, the
\* temperature and pressure flags only for sensor frames.
C6_ControlIsTopBit == Classification(128, 64)

\* C6, amended: a header is treated as a control frame exactly when bit 0x40
\* is set and otherwise as a sensor frame exactly when bit 0x80 is set; the
\* error and config-change flags are used only for control frames, the
\* temperature and pressure flags only for sensor frames.
C6_ControlIsSecondBit == Classification(64, 128)

C6_Witness ==
    /\ HeaderRead
    /\ loc.header = 196
    /\ result.err = "FifoConfigError"

\* the header of a sensor frame that carries temperature, pressure or both, and
\* the queue length has been read
LengthRead ==
    /\ HeaderRead
    /\ loc.fifo_length # -1
    /\ BitAnd(loc.header, 16) > 0 \/ BitAnd(loc.header, 4) > 0

\* size of the frame the header announces, its time field not counted
FrameSize(header) ==
    IF BitAnd(header, 16) > 0 /\ BitAnd(header, 4) > 0 THEN 7 ELSE 4

ShapeWithTime ==
    \/ pc \in {"frame_pressure_temperature_with_time", "frame_temperature_with_time",
               "frame_pressure_with_time"}
    \/ /\ Len(calls) >= 3
       /\ calls[3].kind = "read_block"
       /\ calls[3].len = FrameSize(loc.header) + 4

SensorTimeRule(time_field) ==
    LengthRead =>
        /\ ShapeWithTime <=>
            /\ handle.with_sensor_time = "Enabled"
            /\ loc.fifo_length = FrameSize(loc.header) + time_field
        /\ (~ShapeWithTime /\ pc = "done" /\ result.ok) => result.val.sensor_time = None

\* C7 as stated: the shape with the sensor-time field is chosen exactly when
\* sensor time is enabled and the queue length equals the size of the frame
\* with its time field; otherwise the frame has no sensor time.
C7_LengthIncludesTimeField == SensorTimeRule(4)

\* C7, amended: the shape with the sensor-time field is chosen exactly when
\* sensor time is enabled and the queue length equals the size of the frame
\* without its time field (7 for pressure and temperature, 4 for one of them);
\* otherwise the shape without time is read and the frame has no sensor time.
C7_LengthExcludesTimeField == SensorTimeRule(0)

C7_Witness ==
    /\ LengthRead
    /\ handle.with_sensor_time = "Enabled"
    /\ loc.fifo_length = 7
    /\ pc = "done" /\ result.ok
    /\ result.val.sensor_time # None

BlockReads == {i \in 1..Len(calls) : calls[i].kind = "read_block"}

\* C8 as stated: for the header whose only set bit is the pressure flag, with
\* sensor time disabled, the frame read issues exactly one block read, of 4
\* bytes, and returns a frame with a pressure value and nothing else.
C8_PressureBitAlone ==
    (FrameReturned /\ loc.header = 4 /\ handle.with_sensor_time = "Disabled") =>
        /\ Cardinality(BlockReads) = 1
        /\ \A i \in BlockReads : calls[i].len = 4
        /\ result.ok
        /\ result.val.pressure_raw # None
        /\ result.val.temperature_raw = None
        /\ result.val.sensor_time = None
        /\ ~result.val.config_change

\* C8, amended: for a header with the sensor-frame bit 0x80 and the pressure
\* flag set and the control-frame bit 0x40 and the temperature flag clear, with
\* sensor time disabled, the frame read reads the queue length, then issues
\* exactly one block read, of 4 bytes, and returns a frame without temperature,
\* sensor time or config change; it has a pressure value exactly when the block
\* read delivered 4 bytes and their first byte has the pressure flag set.
C8_PressureOnlySensorFrame ==
    ( /\ FrameReturned
      /\ BitAnd(loc.header, 128) > 0 /\ BitAnd(loc.header, 64) = 0
      /\ BitAnd(loc.header, 16) = 0 /\ BitAnd(loc.header, 4) > 0
      /\ handle.with_sensor_time = "Disabled" ) =>
        /\ Len(calls) = 3
        /\ calls[2].kind = "read_word" /\ calls[2].reg = BMP388_REG_FIFO_LENGTH
        /\ calls[3].kind = "read_block" /\ calls[3].reg = BMP388_REG_FIFO_DATA
        /\ calls[3].len = 4
        /\ result.ok
        /\ result.val.pressure_raw # None <=>
            (loc.bytes_read = 4 /\ BitAnd(loc.read_buf[1], 4) > 0)
        /\ result.val.pressure_raw # None =>
            result.val.pressure_raw =
                loc.read_buf[4] * 65536 + loc.read_buf[3] * 256 + loc.read_buf[2]
        /\ result.val.temperature_raw = None
        /\ result.val.sensor_time = None
        /\ ~result.val.config_change

C8_Witness ==
    /\ FrameReturned
    /\ loc.header = 132
    /\ handle.with_sensor_time = "Disabled"
    /\ result.val.pressure_raw # None

OneDiscardWord ==
    /\ Len(calls) = 2
    /\ calls[2].kind = "read_word"
    /\ calls[2].reg = BMP388_REG_FIFO_DATA

ConfigChangeFrame(headers) ==
    /\ (FrameReturned /\ loc.header \in headers) =>
        /\ OneDiscardWord
        /\ result = Ok(FifoData(None, None, None, TRUE))
    /\ (op.name = "read_next_fifo_data_frame" /\ result.ok /\ result.val.config_change) =>
        /\ result.val.pressure_raw = None
        /\ result.val.temperature_raw = None
        /\ result.val.sensor_time = None

\* C9 as stated: for every control-frame header with the config-change flag
\* set, exactly one discard word is read after the header and the frame
\* returned has config_change = true and no data; and every frame with
\* config_change = true has no data.
C9_EveryConfigChangeHeader ==
    ConfigChangeFrame({h \in Headers : BitAnd(h, 64) > 0 /\ BitAnd(h, 8) > 0})

\* C9, amended: for every control-frame header with the config-change flag
\* set and the error flag clear, exactly one discard word is read after the
\* header and the frame returned has config_change = true and no data; and
\* every frame with config_change = true has no data.
C9_ConfigChangeWithoutError ==
    ConfigChangeFrame({h \in Headers :
        BitAnd(h, 64) > 0 /\ BitAnd(h, 8) > 0 /\ BitAnd(h, 4) = 0})

C9_Witness ==
    /\ FrameReturned
    /\ loc.header = 72
    /\ result.ok /\ result.val.config_change

\* C10: for every control-frame header with the error flag set, with or
\* without the config-change flag, the frame read never returns a frame, and
\* when its transport calls succeed it has read exactly one discard word and
\* fails with the FIFO configuration error.
C10_ConfigErrorFrame ==
    (HeaderRead /\ BitAnd(loc.header, 64) > 0 /\ BitAnd(loc.header, 4) > 0) =>
        /\ ~result.ok
        /\ (pc = "done" /\ AllCallsOk) =>
            /\ OneDiscardWord
            /\ result = Err("FifoConfigError")

C10_Witness ==
    /\ FrameReturned
    /\ loc.header = 76
    /\ result = Err("FifoConfigError")

(***************************************************************************)
(* Empty frames and short block reads.                                      *)
(***************************************************************************)
DiscardWords ==
    {i \in 1..Len(calls) :
        calls[i].kind = "read_word" /\ calls[i].reg = BMP388_REG_FIFO_DATA}

EmptyFrame(headers) ==
    (FrameReturned /\ loc.header \in headers) =>
        /\ Cardinality(DiscardWords) = 1
        /\ result = Ok(FifoData(None, None, None, FALSE))

\* C11 as stated: for every header byte with the temperature flag, the
\* pressure flag and the control-frame bit all clear, the frame read reads
\* exactly one discard word and returns Ok with no pressure, no temperature, no
\* sensor time and config_change = false.
C11_EveryHeaderWithoutFlags ==
    EmptyFrame({h \in Headers :
        BitAnd(h, 16) = 0 /\ BitAnd(h, 4) = 0 /\ BitAnd(h, 64) = 0})

\* C11, amended: for every header byte with the sensor-frame bit 0x80 set and
\* the temperature flag, the pressure flag and the control-frame bit clear, the
\* frame read reads the queue length, then exactly one discard word, and
\* returns Ok with no pressure, no temperature, no sensor time and
\* config_change = false; a header with the sensor-frame bit clear as well is
\* answered with the unknown-header error and no further transport call.
C11_EmptySensorFrame ==
    /\ EmptyFrame({h \in Headers :
            /\ BitAnd(h, 128) > 0 /\ BitAnd(h, 64) = 0
            /\ BitAnd(h, 16) = 0 /\ BitAnd(h, 4) = 0})
    /\ ( /\ FrameReturned
         /\ BitAnd(loc.header, 128) > 0 /\ BitAnd(loc.header, 64) = 0
         /\ BitAnd(loc.header, 16) = 0 /\ BitAnd(loc.header, 4) = 0 ) =>
            /\ Len(calls) = 3
            /\ calls[2].kind = "read_word" /\ calls[2].reg = BMP388_REG_FIFO_LENGTH
            /\ DiscardWords = {3}
    /\ ( /\ FrameReturned
         /\ BitAnd(loc.header, 128) = 0 /\ BitAnd(loc.header, 64) = 0 ) =>
            /\ Len(calls) = 1
            /\ result = Err("UnknownFifoHeader")

C11_Witness ==
    /\ FrameReturned
    /\ loc.header = 136
    /\ Len(calls) = 3
    /\ result = Ok(FifoData(None, None, None, FALSE))

\* the frame read has done its block read: calls[3], of the frame length
BlockReadDone ==
    /\ FrameReturned
    /\ Len(calls) = 3
    /\ calls[3].kind = "read_block"

\* the three bytes after the header byte at index h (0-based) of the buffer,
\* most significant last
BytesAfter(h) ==
    loc.read_buf[h + 4] * 65536 + loc.read_buf[h + 3] * 256 + loc.read_buf[h + 2]

\* C12: in every frame block read that the transport completes, the call
\* returns Ok whatever the count of bytes delivered; a temperature, pressure or
\* sensor-time value is present only if that count covers the bytes of the
\* sub-field (4 for the first sub-field, 7 for the pressure that follows a
\* temperature, and the whole frame length for the last sub-field of the
\* shape), and a value that is present is built from delivered bytes alone.
C12_ShortReadIsAbsent ==
    BlockReadDone =>
        LET n == loc.bytes_read
            len == calls[3].len
            both == BitAnd(loc.header, 16) > 0 /\ BitAnd(loc.header, 4) > 0
            v == result.val
        IN  /\ result.ok
            /\ ~v.config_change
            /\ v.temperature_raw # None =>
                    /\ n >= 4
                    /\ len = 4 => n = 4
                    /\ v.temperature_raw = BytesAfter(0)
            /\ v.pressure_raw # None =>
                    /\ n >= (IF both THEN 7 ELSE 4)
                    /\ len \in {4, 7} => n = len
                    /\ v.pressure_raw = BytesAfter(IF both THEN 3 ELSE 0)
            /\ v.sensor_time # None =>
                    /\ len \in {8, 11}
                    /\ n = len
                    /\ v.sensor_time = BytesAfter(len - 4)

C12_Witness ==
    /\ BlockReadDone
    /\ calls[3].len = 7
    /\ loc.bytes_read = 5
    /\ result.ok
    /\ result.val.temperature_raw # None
    /\ result.val.pressure_raw = None

(***************************************************************************)
(* Properties of the caller's loops.                                        *)
(***************************************************************************)
\* frame reads the caller has issued in the drain in progress
FrameReadsIssued ==
    main.frame_reads
    + (IF main.pc = "read_next_fifo_data_frame" /\ pc # "idle" THEN 1 ELSE 0)

\* C13: in the drain loop of the caller (read one frame, read the queue
\* length, stop when it is 0) a length of 0 is observed at most once in a
\* drain; the loop is left exactly when it is observed, and then as many frame
\* reads have been issued as lengths were read (n - 1 of them non-zero, then
\* the 0); no frame read is issued or in progress after the 0.
C13_DrainLoopTermination ==
    main.mode = "Fifo" =>
        /\ main.zero_lengths <= 1
        /\ main.pc = "read_next_fifo_data_frame" =>
                main.zero_lengths = 0 /\ main.frame_reads = main.lengths_read
        /\ main.pc = "get_fifo_length" =>
                main.zero_lengths = 0 /\ main.frame_reads = main.lengths_read + 1
        /\ main.pc = "delay" => main.zero_lengths = 1
        /\ main.zero_lengths = 1 =>
                /\ main.pc \in {"delay", "is_data_ready", "exit"}
                /\ op.name # "read_next_fifo_data_frame"
                /\ FrameReadsIssued = main.lengths_read

C13_Witness ==
    /\ main.mode = "Fifo"
    /\ main.pc = "delay"
    /\ main.zero_lengths = 1
    /\ main.lengths_read = 2
    /\ main.frame_reads = 2

ForcedSampleTaken == main.mode = "Forced" /\ main.pc \in {"get_data_raw", "delay"}

\* the power mode of the chip changes only by a set_sensor_mode write of the
\* driver, or from Forced to Sleep by the chip itself
ModeChange ==
    DecodePowerMode(dev'.pwr_ctrl) # DecodePowerMode(dev.pwr_ctrl) =>
        \/ /\ op'.name = "set_sensor_mode"
           /\ DecodePowerMode(dev'.pwr_ctrl) = op'.args.pwr_mode
        \/ /\ DecodePowerMode(dev.pwr_ctrl) = "Forced"
           /\ DecodePowerMode(dev'.pwr_ctrl) = "Sleep"
           /\ UNCHANGED <<pc, op, calls, result, main>>

\* C14: in forced acquisition, once set_sensor_mode(Forced) has returned the
\* chip is in Forced until it falls back to Sleep by itself; raw data is read
\* only after a get_sensor_mode issued after that set has returned Sleep, with
\* the chip in Sleep; and with the chip finishing its conversion and the
\* process scheduled, the polling loop is left for the raw read unless a
\* transport call fails.
C14_ForcedModeReadVerify ==
    /\ [](main.mode = "Forced" =>
            /\ main.pc = "get_sensor_mode" =>
                    DecodePowerMode(dev.pwr_ctrl) \in {"Forced", "Sleep"}
            /\ (main.pc = "get_data_raw" \/ op.name = "get_data_raw") =>
                    /\ main.read_back = "Sleep"
                    /\ DecodePowerMode(dev.pwr_ctrl) = "Sleep")
    /\ [][ModeChange]_vars
    /\ ((main.mode = "Forced" /\ main.pc = "get_sensor_mode")
            ~> (ForcedSampleTaken \/ main.pc = "exit"))

C14_Witness ==
    /\ main.mode = "Forced"
    /\ main.pc = "get_data_raw"
    /\ main.read_back = "Sleep"
    /\ op.name = "get_data_raw"
    /\ pc = "done"
    /\ result.ok

(***************************************************************************)
(* Properties of set_sensor_mode and get_sensor_mode.                       *)
(***************************************************************************)
\* the byte the claim describes: power mode in two bits from bit 4,
\* temperature enable in bit 1, pressure enable in bit 0, nothing else
ModeByte(m, p, t) ==
    (CASE m = "Sleep" -> 0 [] m = "Forced" -> 1 [] m = "Normal" -> 3) * 16
    + (IF t = "Enabled" THEN 2 ELSE 0)
    + (IF p = "Enabled" THEN 1 ELSE 0)

\* C15: the byte set_sensor_mode(m, p, t) writes to the power-control register
\* is the power mode in 2 bits from bit 4, temperature enable in bit 1,
\* pressure enable in bit 0 and every other bit 0; and whenever
\* get_sensor_mode reads such a byte it returns (m, p, t), for each of the
\* three power modes and each pair of enable flags.
C15_ModeRegisterRoundTrip ==
    /\ (op.name = "set_sensor_mode" /\ pc = "done") =>
            /\ calls[1].kind = "write_byte"
            /\ calls[1].reg = 27
            /\ calls[1].val = ModeByte(op.args.pwr_mode, op.args.enable_pressure,
                                       op.args.enable_temperature)
            /\ calls[1].val \in 0..63 /\ (calls[1].val \div 4) % 4 = 0
    /\ (op.name = "get_sensor_mode" /\ pc = "done" /\ result.ok) =>
            \A m \in {"Sleep", "Forced", "Normal"}, p, t \in {"Disabled", "Enabled"} :
                calls[1].val = ModeByte(m, p, t) =>
                    result.val = [sensor_mode |-> m, pressure_enabled |-> p,
                                  temperature_enabled |-> t]

C15_Witness ==
    /\ op.name = "get_sensor_mode"
    /\ pc = "done"
    /\ calls[1].val = 17
    /\ result.ok
    /\ result.val = [sensor_mode |-> "Forced", pressure_enabled |-> "Enabled",
                     temperature_enabled |-> "Disabled"]

(***************************************************************************)
(* Raw sample assembly.                                                     *)
(***************************************************************************)
RawReadDone(name) == pc = "done" /\ op.name = name /\ result.ok

\* msb<<16 | lsb<<8 | high nibble of xlsb for bytes transported in the order
\* MSB, LSB, XLSB, the nibble either kept in place or moved to the low bits
HighNibbleReadings(read_buf, i) ==
    {read_buf[i + 1] * 65536 + read_buf[i + 2] * 256 + BitAnd(read_buf[i + 3], 240),
     read_buf[i + 1] * 65536 + read_buf[i + 2] * 256 + (read_buf[i + 3] \div 16)}

\* C16 as stated: every raw pressure and raw temperature sample a raw read
\* returns is msb<<16 | lsb<<8 | high nibble of xlsb of its three
\* transported bytes taken in the register order MSB, LSB, XLSB.
C16_MsbFirstHighNibble ==
    /\ RawReadDone("get_data_raw") =>
            /\ result.val.pressure \in HighNibbleReadings(loc.read_buf, 0)
            /\ result.val.temperature \in HighNibbleReadings(loc.read_buf, 3)
    /\ (RawReadDone("get_pressure_raw") \/ RawReadDone("get_temperature_raw")) =>
            result.val \in HighNibbleReadings(loc.read_buf, 0)
    /\ RawReadDone("get_sensor_data") =>
            /\ handle.uncomp_data.pressure \in HighNibbleReadings(loc.read_buf, 0)
            /\ handle.uncomp_data.temperature \in HighNibbleReadings(loc.read_buf, 3)

\* C16: a BMP388 raw read assembles each sample from its three transported
\* bytes, which arrive in the register order XLSB, LSB, MSB, as
\* msb<<16 | lsb<<8 | xlsb with all eight bits of the XLSB byte (24 bits);
\* BME280::get_sensor_data assembles each of pressure and temperature from
\* bytes in the order MSB, LSB, XLSB as msb<<12 | lsb<<4 | xlsb>>4 (20 bits),
\* so that there the low nibble of the XLSB byte does not influence the value.
C16_RawSampleAssembly ==
    /\ RawReadDone("get_data_raw") =>
            /\ result.val.pressure = loc.read_buf[3] * 65536 + loc.read_buf[2] * 256
                                      + loc.read_buf[1]
            /\ result.val.temperature = loc.read_buf[6] * 65536 + loc.read_buf[5] * 256
                                         + loc.read_buf[4]
    /\ (RawReadDone("get_pressure_raw") \/ RawReadDone("get_temperature_raw")) =>
            result.val = loc.read_buf[3] * 65536 + loc.read_buf[2] * 256 + loc.read_buf[1]
    /\ RawReadDone("get_sensor_data") =>
            /\ handle.uncomp_data.pressure = loc.read_buf[1] * 4096 + loc.read_buf[2] * 16
                                              + (loc.read_buf[3] \div 16)
            /\ handle.uncomp_data.temperature = loc.read_buf[4] * 4096 + loc.read_buf[5] * 16
                                                 + (loc.read_buf[6] \div 16)

\* a combined raw read has returned a pressure whose XLSB byte has a low nibble
C16_Witness ==
    /\ RawReadDone("get_data_raw")
    /\ loc.bytes_read = 6
    /\ loc.read_buf[1] % 16 # 0
    /\ result.val.pressure = 6623796

(***************************************************************************)
(* A failed frame read and the handle.                                      *)
(***************************************************************************)
FrameReadFailed ==
    pc = "done" /\ op.name = "read_next_fifo_data_frame" /\ ~result.ok

\* the frame read has read the queue length and chosen what to read next
FrameShapeChosen ==
    /\ op.name = "read_next_fifo_data_frame"
    /\ pc \notin {"idle", "done", "fifo_length", "discard_config_error",
                  "discard_config_change"}

\* C17: no step of a read_next_fifo_data_frame call, failing or not, changes
\* any field of the handle, and what a call reads after the queue length is
\* determined by the header it read, the queue length it read and the
\* handle's cached sensor-time flag alone, so an earlier failed call has no
\* influence on how a later call decodes its header.
C17_FailedFrameReadKeepsHandle ==
    /\ [][op'.name = "read_next_fifo_data_frame" => handle' = handle]_vars
    /\ [](FrameShapeChosen =>
            pc = FrameShape(loc.header, handle.with_sensor_time, loc.fifo_length))

\* a frame read has failed with the config error on a handle that holds its
\* calibration and has the sensor-time flag set
C17_Witness ==
    /\ FrameReadFailed
    /\ result = Err("FifoConfigError")
    /\ handle.with_sensor_time = "Enabled"
    /\ handle.calib_filled = <<BMP388_LEN_TRIMMING_COEFFICIENTS>>

(***************************************************************************)
(* Temperature before pressure.                                             *)
(***************************************************************************)
Compensated(name) == pc = "done" /\ op.name = name

\* C18: every pressure compensation consumes a linearized temperature term
\* that was computed beforehand from the raw temperature sample with the
\* handle's t-coefficients: the term BME280::compensate_pressure_float reads
\* is the one of the handle's current raw temperature, never one not yet
\* computed or left over, and get_pressure_and_temperature gives the
\* pressure polynomial the temperature it has just compensated.
C18_TemperatureBeforePressure ==
    /\ Compensated("compensate_pressure_float") =>
            handle.calib_data.t_fine_float
                = t_fine_float(handle.calib_data, handle.uncomp_data)
    /\ Compensated("get_pressure_and_temperature") =>
            result.val.pressure
                = get_pressure(handle.calib_data, op.args.data_raw.pressure,
                               get_temperature(handle.calib_data,
                                               op.args.data_raw.temperature))

(***************************************************************************)
(* Compensation and the state of the handle.                                *)
(***************************************************************************)
CompensationCalls ==
    {"get_temperature", "get_pressure", "get_pressure_and_temperature",
     "compensate_temperature_float", "compensate_temperature_fixed",
     "compensate_pressure_float"}

\* C19: no compensation call, temperature or pressure, of any chip driver,
\* changes any state held by the handle; in particular the calibration data
\* is the same after the call as before it.
C19_CompensationIsPure ==
    [][op'.name \in CompensationCalls => handle' = handle]_vars

(***************************************************************************)
(* Compensation sanity values.                                              *)
(***************************************************************************)
OnlyP1(calib_data) ==
    /\ calib_data.par_p1 # 0
    /\ \A f \in {"par_p2", "par_p3", "par_p4", "par_p5", "par_p6", "par_p7", "par_p8",
                  "par_p9", "par_p10", "par_p11"} : calib_data[f] = 0

TemperaturePolynomial(c, raw) ==
    (raw - c.par_t1) * c.par_t2 + (raw - c.par_t1) * (raw - c.par_t1) * c.par_t3

PressurePolynomial(c, raw, t) ==
    c.par_p5 + c.par_p6 * t + c.par_p7 * t * t + c.par_p8 * t * t * t
    + raw * (c.par_p1 + c.par_p2 * t + c.par_p3 * t * t + c.par_p4 * t * t * t)
    + raw * raw * (c.par_p9 + c.par_p10 * t)
    + raw * raw * raw * c.par_p11

\* the BME280 temperature polynomials in hundredths of a degree, from the
\* term the call has just stored
Bme280TemperatureFloat == (handle.calib_data.t_fine_float * 100) \div 5120

Bme280TemperatureFixed == (handle.calib_data.t_fine_fixed * 5 + 128) \div 256

Limited(x, min, max) == IF x < min THEN min ELSE IF x > max THEN max ELSE x

Config1Written == pc = "fifo_config_1" /\ pc' = "done" /\ result'.ok

\* C22: the handle's cached with_sensor_time flag is Disabled until an
\* enable_fifo call's FIFO-config-1 write succeeds; that step sets it to the
\* call's with_sensor_time argument, and no other step of new, enable_fifo
\* (failing at the flush, the config-2 write or the config-1 write),
\* disable_fifo, flush_fifo, a frame read or any other operation changes it.
C22_CachedSensorTimeFlag ==
    /\ handle.with_sensor_time = "Disabled"
    /\ [][IF Config1Written
          THEN handle'.with_sensor_time = op.args.with_sensor_time
          ELSE handle'.with_sensor_time = handle.with_sensor_time]_vars

\* an enable_fifo asking for Disabled has failed at its config-1 write on a
\* handle whose flag an earlier enable_fifo had set
C22_Witness ==
    /\ pc = "done"
    /\ op.name = "enable_fifo"
    /\ Len(calls) = 3
    /\ ~result.ok
    /\ op.args.with_sensor_time = "Disabled"
    /\ handle.with_sensor_time = "Enabled"

(***************************************************************************)
(* The queue length read after the header.                                  *)
(***************************************************************************)
\* a frame read has chosen its block read for the header of a queue that held
\* exactly one pressure-and-temperature frame at the header read
OneFrameAtHeader ==
    /\ op.name = "read_next_fifo_data_frame"
    /\ pc \in {"frame_pressure_temperature", "frame_pressure_temperature_with_time"}
    /\ loc.fifo_at_header = BMP280_FIFO_FRAMLE_LENGTH_PRESSURE_TEMPERATURE

\* C23: with the chip appending frames on its own in Normal mode, the frame
\* shape chosen for a header depends on whether an append falls between the
\* header read and the queue-length read of the same call: for the same queue
\* content at the header read (one frame, sensor time enabled) the block read
\* takes the trailing sensor-time field exactly when no append fell between.
C23_LengthReadRace ==
    OneFrameAtHeader =>
        /\ loc.fifo_length >= loc.fifo_at_header
        /\ (pc = "frame_pressure_temperature_with_time")
               <=> (loc.fifo_length = loc.fifo_at_header)

\* an append fell between the two reads: the call is about to read 7 bytes,
\* where the call without the append reads 11
C23_Witness ==
    /\ OneFrameAtHeader
    /\ loc.fifo_length = 2 * BMP280_FIFO_FRAMLE_LENGTH_PRESSURE_TEMPERATURE
    /\ pc = "frame_pressure_temperature"

(***************************************************************************)
(* Layout of the BMP388 trimming block.                                     *)
(***************************************************************************)
\* get_calib_data has decoded a trimming block that was delivered in full
CalibDecoded ==
    /\ op.name = "new" /\ op.drv = "BMP388"
    /\ loc.calib_filled = <<BMP388_LEN_TRIMMING_COEFFICIENTS>>

\* offset of the first byte, number of bytes and signedness of each field
CalibLayout ==
    [par_t1 |-> <<0, 2, "unsigned">>, par_t2 |-> <<2, 2, "unsigned">>,
     par_t3 |-> <<4, 1, "signed">>, par_p1 |-> <<5, 2, "signed">>,
     par_p2 |-> <<7, 2, "signed">>, par_p3 |-> <<9, 1, "signed">>,
     par_p4 |-> <<10, 1, "signed">>, par_p5 |-> <<11, 2, "unsigned">>,
     par_p6 |-> <<13, 2, "unsigned">>, par_p7 |-> <<15, 1, "signed">>,
     par_p8 |-> <<16, 1, "signed">>, par_p9 |-> <<17, 2, "signed">>,
     par_p10 |-> <<19, 1, "signed">>, par_p11 |-> <<20, 1, "signed">>]

\* the field read from block (indexed from 1) little-endian, before scaling
LayoutValue(block, l) ==
    LET unsigned == IF l[2] = 2 THEN block[l[1] + 1] + 256 * block[l[1] + 2]
                    ELSE block[l[1] + 1]
        half == IF l[2] = 2 THEN 32768 ELSE 128
    IN  IF l[3] = "signed" /\ unsigned >= half THEN unsigned - 2 * half ELSE unsigned

\* C24: the 21-byte trimming block is sliced so that every byte offset 0..20
\* belongs to exactly one coefficient; 16-bit fields are little-endian; t1,
\* t2, p5, p6 are unsigned 16-bit, p1, p2, p9 signed 16-bit and t3, p3, p4,
\* p7, p8, p10, p11 signed 8-bit, before scaling (p1 and p2 are held after
\* their offset of 16384 is taken off in 16 bits).
C24_CalibrationLayout ==
    /\ \A i \in 0..20 :
          Cardinality({f \in DOMAIN CalibLayout :
                          i \in CalibLayout[f][1]..(CalibLayout[f][1] + CalibLayout[f][2] - 1)})
            = 1
    /\ CalibDecoded =>
          \A f \in DOMAIN CalibLayout :
             IF f \in {"par_p1", "par_p2"}
             THEN /\ loc.calib_data[f] \in -32768..32767
                  /\ (loc.calib_data[f] + 16384 - LayoutValue(dev.trim, CalibLayout[f]))
                        % 65536 = 0
             ELSE loc.calib_data[f] = LayoutValue(dev.trim, CalibLayout[f])

\* the factory block has been decoded: t1 = 0x6b70, t3 = -10, p9 = 0x41d4
C24_Witness ==
    /\ CalibDecoded
    /\ dev.trim = DeviceTrimmingBlock
    /\ loc.calib_data.par_t1 = 27504
    /\ loc.calib_data.par_t3 = -10
    /\ loc.calib_data.par_p1 = -16690
    /\ loc.calib_data.par_p9 = 16852

(***************************************************************************)
(* Width of the offset subtraction in calibration decoding.                 *)
(***************************************************************************)
\* C25: for every content of the trimming block the subtraction field - 16384
\* applied to the signed 16-bit fields p1 and p2 stays within the signed
\* 16-bit range: calibration decoding neither traps nor wraps.
C25_NoI16Overflow ==
    /\ pc # "panicked"
    /\ CalibDecoded =>
          \A f \in {"par_p1", "par_p2"} :
             loc.calib_data[f] = LayoutValue(dev.trim, CalibLayout[f]) - 16384

(***************************************************************************)
(* Bit fields of FIFO-config-2.                                             *)
(***************************************************************************)
\* the bytes an enable_fifo call in progress or returned has written to
\* FIFO-config-2
Config2Writes ==
    {calls[i].val : i \in {j \in 1..Len(calls) :
                              /\ calls[j].kind = "write_byte"
                              /\ calls[j].reg = BMP388_REG_FIFO_CONFIG_2
                              /\ calls[j].ok}}

\* C26: for every subsampling argument and every data_filtered choice the
\* byte enable_fifo writes to FIFO-config-2 has its data-select bit (bit 3)
\* equal to data_filtered and no bit above bit 3 set, and a negative
\* subsampling is written as 0.
C26_Config2FieldsApart ==
    op.name = "enable_fifo" =>
        \A v \in Config2Writes :
            /\ BitAnd(v, 8) = 8 * DataFilteredValue(op.args.data_filtered)
            /\ v < 16
            /\ op.args.subsampling < 0 => BitAnd(v, 7) = 0

(***************************************************************************)
(* Width of the fixed-point temperature compensation.                       *)
(***************************************************************************)
\* C27: for every 20-bit raw temperature and every calibration triple (t1
\* unsigned 16-bit, t2 and t3 signed 16-bit) every intermediate product and
\* sum of BME280::compensate_temperature_fixed fits in a signed 32-bit
\* integer: the call neither traps nor wraps.
C27_FixedStaysIn32Bits ==
    /\ pc # "panicked"
    /\ Compensated("compensate_temperature_fixed") =>
            LET p == fixed_products(handle.calib_data, handle.uncomp_data) IN
            /\ MulFitsI32(p.var1a, handle.calib_data.dig_t2)
            /\ MulFitsI32(p.var2a, p.var2a)
            /\ MulFitsI32(p.square \div 4096, handle.calib_data.dig_t3)

(***************************************************************************)
(* What a frame read takes from the queue.                                  *)
(***************************************************************************)
\* the reads of the queue-data register that follow the header read
PayloadReads ==
    {i \in 2..Len(calls) :
        /\ calls[i].reg = BMP388_REG_FIFO_DATA
        /\ calls[i].kind \in {"read_block", "read_word"}}

\* C28: every read_next_fifo_data_frame call that completes without a
\* transport failure has issued, after the header read, exactly one payload
\* read (a block read or a discard word) from the queue-data register, the
\* calls that return an error for an unknown control header or an unknown
\* header included.
C28_EveryFrameReadConsumes ==
    FrameReturned => Cardinality(PayloadReads) = 1

(***************************************************************************)
(* Decoding of the power-control register.                                  *)
(***************************************************************************)
\* the two power-mode bits (bits 4-5) of a register value
ModeBits(reg_val) == BitAnd(Shr(reg_val, BMP280_POWER_MODE_LOW_BIT), 3)

\* C29: for every value of the power-control register the power mode that
\* get_sensor_mode returns is a function of bits 4-5 only (00 = Sleep, 01 or
\* 10 = Forced, 11 = Normal) and the enable flags are functions of bit 0 and
\* bit 1 only; bits 2, 3, 6 and 7 never change the result.
C29_ModeFromModeBitsOnly ==
    (op.name = "get_sensor_mode" /\ pc = "done" /\ result.ok) =>
        LET reg_val == calls[1].val IN
        /\ result.val.sensor_mode =
              (CASE ModeBits(reg_val) = 0 -> "Sleep"
                 [] ModeBits(reg_val) \in {1, 2} -> "Forced"
                 [] ModeBits(reg_val) = 3 -> "Normal")
        /\ result.val.pressure_enabled =
              (IF BitAnd(reg_val, 1) = 1 THEN "Enabled" ELSE "Disabled")
        /\ result.val.temperature_enabled =
              (IF BitAnd(reg_val, 2) = 2 THEN "Enabled" ELSE "Disabled")

(***************************************************************************)
(* BME280: what a read-modify-write of ctrl_meas leaves alone.              *)
(***************************************************************************)
CtrlMeasMode(d) == BitAnd(d.ctrl_meas, BME280_CTRL_MODE_MSK)

CtrlMeasOsr(d) == BitAnd(d.ctrl_meas, BitOr(BME280_CTRL_PRESS_MSK, BME280_CTRL_TEMP_MSK))

\* C30: in every interleaving with the chip's own Forced-to-Sleep transition
\* no step of set_osr_pressure_temperature or set_osr_humidity changes the
\* power-mode bits of the device (in particular none puts a device that has
\* returned to Sleep back into Forced), and no step of set_sensor_mode
\* changes its oversampling bits.
C30_CtrlMeasFieldsPreserved ==
    [][pc' # pc =>
        /\ op'.name \in {"set_osr_pressure_temperature", "set_osr_humidity"} =>
                CtrlMeasMode(dev') = CtrlMeasMode(dev)
        /\ op'.name = "set_sensor_mode" /\ op'.drv = "BME280" =>
                CtrlMeasOsr(dev') = CtrlMeasOsr(dev)]_vars

====
